---- MODULE Spec2Model ----
(***************************************************************************)
(* Model of the static-analysis core of advisor-code-analyzer:             *)
(* CodeAnalyzer.analyze (app/services/code_analyzer.py) and the rule       *)
(* classes of app/services/analysis_rules.                                 *)
(*                                                                         *)
(* A Python string is a sequence of one-character strings, so that         *)
(* split("."), startswith("_") and f-string concatenation are computed     *)
(* and not assumed.  None and "" (both falsy for `or`) are <<>>.           *)
(***************************************************************************)
EXTENDS Integers, Sequences, FiniteSets, TLC

VARIABLES
    now,          \* time.perf_counter(), in milliseconds
    pc,           \* pc[t]: where call t of CodeAnalyzer.analyze stands
    code,         \* code[t]: the argument of the call
    start,        \* start[t]: local `start`
    tree,         \* tree[t]: local `tree`
    suggestions,  \* suggestions[t]: local `suggestions`
    result,       \* result[t]: what the call returned or raised
    executed,     \* history: executed[t], the checks call t has run, in order
    prior,        \* history: one earlier finished call (code and findings)
    family,       \* which set of inputs the run draws from
    rtree,        \* rule harness: the tree handed to rule.analyze
    sink,         \* rule harness: the list handed to rule.analyze
    ran,          \* rule harness: the rules run on sink so far, in order
    cache,        \* the cache service's store: a dict from key to payload
    history,      \* the analysis_history table, in order of creation
    request,      \* the analyze_code call in progress: locals and position
    client,       \* CacheService._redis: not built yet, a client, or None
    redis,        \* the Redis server: reachable or not, and its keys
    memory,       \* CacheService._memory_cache
    lastcall,     \* history: the last get or set on the CacheService
    written,      \* history: per key, the last set that returned
    dbcall        \* history: the last call on the AnalysisHistoryService

vars == <<now, pc, code, start, tree, suggestions, result, executed, prior,
          family, rtree, sink, ran, cache, history, request,
          client, redis, memory, lastcall, written, dbcall>>

callVars == <<pc, code, start, tree, suggestions, result, executed>>
harnessVars == <<rtree, sink, ran>>
serviceVars == <<cache, history, request>>
backendVars == <<client, redis, memory, lastcall, written, dbcall>>

-----------------------------------------------------------------------------
(* Bounds *)

MaxLines == 2      \* longest enumerated source, in lines
MaxClock == 2      \* the clock stops advancing here
MaxRuns == 2       \* rule.analyze calls on one sink
MaxRequests == 2   \* analyze_code calls on one service
MaxOps == 3        \* calls on one CacheService, or on one history service
MaxTtl == 2        \* the longest ttl_seconds handed to set, in clock ticks

\* the callers that may be inside analyze on the one shared analyzer
Threads == {1, 2}

-----------------------------------------------------------------------------
(* Python strings *)

NoneStr == <<>>

\* a or b  (on optional strings)
Or(a, b) == IF a # <<>> THEN a ELSE b

\* s.startswith("_")
StartsWithUnderscore(s) == Len(s) > 0 /\ s[1] = "_"

RECURSIVE FirstSegment(_)
\* s.split(".")[0]
FirstSegment(s) ==
    IF s = <<>> \/ Head(s) = "." THEN <<>>
    ELSE <<Head(s)>> \o FirstSegment(Tail(s))

RECURSIVE IntStr(_)
\* str(n) for n >= 0, as f-strings format an int
IntStr(n) ==
    LET d == <<"0", "1", "2", "3", "4", "5", "6", "7", "8", "9">>[(n % 10) + 1]
    IN  IF n < 10 THEN <<d>> ELSE IntStr(n \div 10) \o <<d>>

\* f"{a}.{b}"
Dotted(a, b) == a \o <<".">> \o b

\* for x in s: acc = Step(acc, x).  The sequence is split in halves and the
\* first half is evaluated (left = left) before the second starts, so that
\* the evaluation stays shallow on long sequences.
For(s, acc0, Step(_, _)) ==
    LET RECURSIVE Go(_, _, _)
        Go(acc, lo, hi) ==
            IF lo > hi THEN acc
            ELSE IF lo = hi THEN Step(acc, s[lo])
            ELSE LET mid == (lo + hi) \div 2
                     left == Go(acc, lo, mid)
                 IN  IF left = left THEN Go(left, mid + 1, hi) ELSE acc
    IN  Go(acc0, 1, Len(s))

\* the sequence 1, ..., n
Indices(n) == [i \in 1..n |-> i]

-----------------------------------------------------------------------------
(* Source text.  A source is a sequence of physical lines; a line is an    *)
(* indentation level and one statement.  Expressions and statements are    *)
(* written as records; ast.parse turns them into nodes.                    *)

EName(id) == [e |-> "Name", id |-> id]
ENum == [e |-> "Constant", kind |-> "int", s |-> <<>>]
EStr(s) == [e |-> "Constant", kind |-> "str", s |-> s]
ECall(f, args) == [e |-> "Call", func |-> f, args |-> args]
EAttribute(v, a) == [e |-> "Attribute", value |-> v, attr |-> a]
EBoolOp(a, b) == [e |-> "BoolOp", left |-> a, right |-> b]      \* a and b

Alias(n, a) == [name |-> n, asname |-> a]
SImport(names) == [k |-> "import", names |-> names]
SFrom(module, names) == [k |-> "from", module |-> module, names |-> names]
SAssign(target, value) == [k |-> "assign", target |-> target, value |-> value]
SExpr(value) == [k |-> "expr", value |-> value]
SDef(name) == [k |-> "def", name |-> name]
SAsyncDef(name) == [k |-> "asyncdef", name |-> name]
SIf(test) == [k |-> "if", test |-> test]
SWhile(test) == [k |-> "while", test |-> test]
SReturn(value) == [k |-> "return", value |-> value]
SPass == [k |-> "pass"]
SBlank == [k |-> "blank"]
SBroken == [k |-> "broken"]      \* a line the grammar rejects: def broken(:

Line(d, st) == [indent |-> d, st |-> st]

IsHeader(st) == st.k \in {"def", "asyncdef", "if", "while"}

RECURSIVE TextLen(_)
RECURSIVE ArgsLen(_)
\* number of characters of an expression as written
TextLen(e) ==
    CASE e.e = "Name" -> Len(e.id)
      [] e.e = "Constant" -> IF e.kind = "str" THEN Len(e.s) + 2 ELSE 1
      [] e.e = "Attribute" -> TextLen(e.value) + 1 + Len(e.attr)
      [] e.e = "Call" -> TextLen(e.func) + 2 + ArgsLen(e.args)
      [] e.e = "BoolOp" -> TextLen(e.left) + 5 + TextLen(e.right)
ArgsLen(args) ==
    IF args = <<>> THEN 0
    ELSE TextLen(Head(args)) + (IF Len(args) > 1 THEN 2 ELSE 0) + ArgsLen(Tail(args))

-----------------------------------------------------------------------------
(* The syntax tree: a sequence of nodes, node 1 the Module; children holds *)
(* the child nodes in the order ast.iter_child_nodes yields them.  Nodes   *)
(* that no rule looks at and that have no children (Load/Store contexts,   *)
(* alias, arguments) are left out of children; aliases are kept as data in *)
(* names.                                                                  *)

Node(type, ln, col) ==
    [type |-> type, lineno |-> ln, end_lineno |-> ln, col_offset |-> col,
     children |-> <<>>, name |-> <<>>, id |-> <<>>, ctx |-> "", module |-> <<>>,
     names |-> <<>>, targets |-> <<>>, func |-> 0, body |-> <<>>,
     kind |-> "", s |-> <<>>]

RECURSIVE ExprNodes(_, _, _, _)
RECURSIVE ArgNodes(_, _, _, _)
\* the nodes of expression e, its root first and numbered base + 1
ExprNodes(e, base, ln, col) ==
    CASE e.e = "Name" ->
           <<[Node("Name", ln, col) EXCEPT !.id = e.id, !.ctx = "Load"]>>
      [] e.e = "Constant" ->
           <<[Node("Constant", ln, col) EXCEPT !.kind = e.kind, !.s = e.s]>>
      [] e.e = "Attribute" ->
           <<[Node("Attribute", ln, col) EXCEPT
                !.name = e.attr, !.ctx = "Load", !.children = <<base + 2>>]>>
           \o ExprNodes(e.value, base + 1, ln, col)
      [] e.e = "Call" ->
           LET F == ExprNodes(e.func, base + 1, ln, col)
               A == ArgNodes(e.args, base + 1 + Len(F), ln,
                             col + TextLen(e.func) + 1)
           IN  <<[Node("Call", ln, col) EXCEPT
                    !.func = base + 2, !.children = <<base + 2>> \o A.roots]>>
               \o F \o A.nodes
      [] e.e = "BoolOp" ->
           LET L == ExprNodes(e.left, base + 1, ln, col)
               R == ExprNodes(e.right, base + 1 + Len(L), ln,
                              col + TextLen(e.left) + 5)
           IN  <<[Node("BoolOp", ln, col) EXCEPT
                    !.children = <<base + 2, base + 2 + Len(L)>>]>>
               \o L \o R
ArgNodes(args, base, ln, col) ==
    IF args = <<>> THEN [nodes |-> <<>>, roots |-> <<>>]
    ELSE LET H == ExprNodes(Head(args), base, ln, col)
             R == ArgNodes(Tail(args), base + Len(H), ln,
                           col + TextLen(Head(args)) + 2)
         IN  [nodes |-> H \o R.nodes, roots |-> <<base + 1>> \o R.roots]

\* the nodes of one statement line, its root first and numbered base + 1;
\* the body of a compound statement is linked by Parse
StmtNodes(st, base, ln, col) ==
    CASE st.k = "import" ->
           <<[Node("Import", ln, col) EXCEPT !.names = st.names]>>
      [] st.k = "from" ->
           <<[Node("ImportFrom", ln, col) EXCEPT
                !.module = st.module, !.names = st.names]>>
      [] st.k = "assign" ->
           <<[Node("Assign", ln, col) EXCEPT
                !.targets = <<base + 2>>, !.children = <<base + 2, base + 3>>],
             [Node("Name", ln, col) EXCEPT !.id = st.target, !.ctx = "Store"]>>
           \o ExprNodes(st.value, base + 2, ln, col + Len(st.target) + 3)
      [] st.k = "expr" ->
           <<[Node("Expr", ln, col) EXCEPT !.children = <<base + 2>>]>>
           \o ExprNodes(st.value, base + 1, ln, col)
      [] st.k = "return" ->
           <<[Node("Return", ln, col) EXCEPT !.children = <<base + 2>>]>>
           \o ExprNodes(st.value, base + 1, ln, col + 7)
      [] st.k = "if" ->
           <<[Node("If", ln, col) EXCEPT !.children = <<base + 2>>]>>
           \o ExprNodes(st.test, base + 1, ln, col + 3)
      [] st.k = "while" ->
           <<[Node("While", ln, col) EXCEPT !.children = <<base + 2>>]>>
           \o ExprNodes(st.test, base + 1, ln, col + 6)
      [] st.k = "def" ->
           <<[Node("FunctionDef", ln, col) EXCEPT !.name = st.name]>>
      [] st.k = "asyncdef" ->
           <<[Node("AsyncFunctionDef", ln, col) EXCEPT !.name = st.name]>>
      [] st.k = "pass" -> <<Node("Pass", ln, col)>>
      [] OTHER -> <<>>

-----------------------------------------------------------------------------
(* ast.parse: SyntaxError (IndentationError included) or a Module tree.    *)

NonBlank(src) == {i \in 1..Len(src) : src[i].st.k # "blank"}

\* the non-blank line before line i, 0 if none
PrevLine(src, i) ==
    LET P == {j \in NonBlank(src) : j < i}
    IN  IF P = {} THEN 0 ELSE CHOOSE j \in P : \A m \in P : m <= j

\* the lines the grammar rejects
BadLines(src) ==
    {i \in NonBlank(src) :
        LET p == PrevLine(src, i)
        IN  \/ src[i].st.k = "broken"
            \/ p = 0 /\ src[i].indent # 0                      \* unexpected indent
            \/ p # 0 /\ IsHeader(src[p].st)
                     /\ src[i].indent # src[p].indent + 1      \* expected an indented block
            \/ p # 0 /\ ~IsHeader(src[p].st)
                     /\ src[i].indent > src[p].indent          \* unexpected indent
            \/ IsHeader(src[i].st)
                 /\ \A j \in NonBlank(src) : j <= i}            \* header at end of file

\* the header line whose body holds line i, 0 at top level
ParentLine(src, i) ==
    LET P == {j \in NonBlank(src) : j < i /\ src[j].indent < src[i].indent}
    IN  IF P = {} THEN 0 ELSE CHOOSE j \in P : \A m \in P : m <= j

\* the last line of the block that line i opens
EndLine(src, i) ==
    LET B == {j \in NonBlank(src) :
                 /\ j >= i
                 /\ \A m \in NonBlank(src) :
                        (i < m /\ m <= j) => src[m].indent > src[i].indent}
    IN  CHOOSE j \in B : \A m \in B : m <= j

\* the number of nodes of line i
SizeOf(src, i) == Len(StmtNodes(src[i].st, 0, i, 0))

\* the node number of the statement of line i (node 1 is the Module)
RootOf(src, i) ==
    For(Indices(i - 1), 2, LAMBDA n, j : n + SizeOf(src, j))

\* the statements whose parent is line p (0: the module), in source order
BodyOf(src, p) ==
    LET lines == SelectSeq(Indices(Len(src)),
                           LAMBDA i : i \in NonBlank(src) /\ ParentLine(src, i) = p)
    IN  [j \in 1..Len(lines) |-> RootOf(src, lines[j])]

\* the nodes of line i, its body linked
LineNodes(src, i) ==
    LET N == StmtNodes(src[i].st, RootOf(src, i) - 1, i, 4 * src[i].indent)
    IN  IF N # <<>> /\ IsHeader(src[i].st)
        THEN <<[N[1] EXCEPT
                  !.body = BodyOf(src, i),
                  !.children = @ \o BodyOf(src, i),
                  !.end_lineno = EndLine(src, i)]>> \o Tail(N)
        ELSE N

SyntaxErrorOf(src) ==
    LET i == CHOOSE b \in BadLines(src) : \A m \in BadLines(src) : b <= m
        p == PrevLine(src, i)
    IN  [msg |-> IF src[i].st.k = "broken" THEN "invalid syntax"
                 ELSE IF \/ p = 0 /\ src[i].indent # 0
                         \/ p # 0 /\ ~IsHeader(src[p].st)
                                  /\ src[i].indent > src[p].indent
                      THEN "unexpected indent"
                 ELSE "expected an indented block",
         lineno |-> i,
         offset |-> 4 * src[i].indent + 1]      \* where the tokenizer stopped

\* ast.parse(code): [ok |-> TRUE, tree |-> nodes] or [ok |-> FALSE, exc |-> error]
Parse(src) ==
    IF BadLines(src) # {}
    THEN [ok |-> FALSE, exc |-> SyntaxErrorOf(src)]
    ELSE [ok |-> TRUE,
          tree |-> For(Indices(Len(src)),
                       <<[Node("Module", 0, 0) EXCEPT
                            !.body = BodyOf(src, 0),
                            !.children = BodyOf(src, 0)]>>,
                       LAMBDA nodes, i : nodes \o LineNodes(src, i))]

RECURSIVE WalkPreOrder(_, _)
\* a walk that goes down before it goes on: each node, then its subtrees
WalkPreOrder(t, root) ==
    For(t[root].children, <<root>>, LAMBDA q, c : q \o WalkPreOrder(t, c))

RECURSIVE Levels(_, _)
\* the nodes of one depth, then those of the next
Levels(t, level) ==
    IF level = <<>> THEN <<>>
    ELSE level \o Levels(t, For(level, <<>>, LAMBDA q, n : q \o t[n].children))

\* ast.walk(tree[root]): breadth first (a queue of nodes, children appended
\* in field order), which is the tree depth by depth
Walk(t, root) == Levels(t, <<root>>)

-----------------------------------------------------------------------------
(* Python dict with string keys: insertion ordered; assigning to a key     *)
(* that is present keeps its position.                                     *)

HasKey(d, k) == \E i \in 1..Len(d) : d[i].key = k

DictSet(d, k, v) ==
    IF HasKey(d, k)
    THEN [i \in 1..Len(d) |-> IF d[i].key = k THEN [key |-> k, value |-> v] ELSE d[i]]
    ELSE Append(d, [key |-> k, value |-> v])

Range(f) == {f[i] : i \in DOMAIN f}

None == -1

Finding(rule_id, message, severity, line, column, metadata) ==
    [rule_id |-> rule_id, message |-> message, severity |-> severity,
     line |-> line, column |-> column, metadata |-> metadata]

\* names read in load context anywhere in the tree
LoadedNames(t) ==
    {t[n].id : n \in {m \in Range(Walk(t, 1)) :
                         t[m].type = "Name" /\ t[m].ctx = "Load"}}

-----------------------------------------------------------------------------------------------------------------------------------------------------
(* CodeAnalyzer._check_imports *)

\* ImportAliases without the split(".")[0]: the whole dotted name is the key
ImportAliasesFullName(node, imports) ==
    For(node.names, imports,
        LAMBDA d, alias :
            DictSet(d, Or(alias.asname, alias.name), node.lineno))

\* for alias in node.names (ast.Import)
ImportAliases(node, imports) ==
    For(node.names, imports,
        LAMBDA d, alias :
            LET name == Or(alias.asname, FirstSegment(alias.name))
            IN  DictSet(d, name, node.lineno))

\* for alias in node.names (ast.ImportFrom)
ImportFromAliases(node, imports) ==
    LET module == Or(node.module, <<>>)
    IN  For(node.names, imports,
            LAMBDA d, alias :
                LET name == Or(alias.asname, alias.name)
                    key == IF module # <<>> THEN Dotted(module, name) ELSE name
                IN  DictSet(d, key, node.lineno))

\* the first loop: for node in ast.walk(tree)
ImportTable(t) ==
    For(Walk(t, 1), <<>>,
        LAMBDA imports, n :
            IF t[n].type = "Import" THEN ImportAliases(t[n], imports)
            ELSE IF t[n].type = "ImportFrom" THEN ImportFromAliases(t[n], imports)
            ELSE imports)

\* ReportImports looking the whole key up in used_names, not its base_name
ReportImportsByKey(imports, used_names, suggestions0) ==
    For(imports, suggestions0,
        LAMBDA sugg, item :
            IF item.key \notin used_names
            THEN Append(sugg,
                     Finding("unused_import",
                             <<"Importacao '">> \o item.key
                               \o <<"' nao e utilizada.">>,
                             "warning", item.value, None, [symbol |-> item.key]))
            ELSE sugg)

\* the last loop: for name, lineno in imports.items()
ReportImports(imports, used_names, suggestions0) ==
    For(imports, suggestions0,
        LAMBDA sugg, item :
            LET name == item.key
                lineno == item.value
                base_name == FirstSegment(name)
            IN  IF base_name \notin used_names
                THEN Append(sugg,
                         Finding("unused_import",
                                 <<"Importacao '">> \o name \o <<"' nao e utilizada.">>,
                                 "warning", lineno, None, [symbol |-> name]))
                ELSE sugg)

check_imports(t, sugg) == ReportImports(ImportTable(t), LoadedNames(t), sugg)

-----------------------------------------------------------------------------
(* CodeAnalyzer._check_unused_variables *)

\* NameTable without the startswith("_") test
NameTableNoExempt(t) ==
    For(Walk(t, 1), [assigned |-> <<>>, used_names |-> {}],
        LAMBDA acc, n :
            LET node == t[n]
            IN  IF node.type = "Name" /\ node.ctx = "Store"
                THEN [acc EXCEPT !.assigned = DictSet(@, node.id, node.lineno)]
                ELSE IF node.type = "Name" /\ node.ctx = "Load"
                THEN [acc EXCEPT !.used_names = @ \cup {node.id}]
                ELSE acc)

\* NameTable keeping the line of the first assignment visited
NameTableFirstVisit(t) ==
    For(Walk(t, 1), [assigned |-> <<>>, used_names |-> {}],
        LAMBDA acc, n :
            LET node == t[n]
            IN  IF node.type = "Name" /\ node.ctx = "Store"
                THEN IF ~StartsWithUnderscore(node.id)
                        /\ ~HasKey(acc.assigned, node.id)
                     THEN [acc EXCEPT !.assigned = DictSet(@, node.id, node.lineno)]
                     ELSE acc
                ELSE IF node.type = "Name" /\ node.ctx = "Load"
                THEN [acc EXCEPT !.used_names = @ \cup {node.id}]
                ELSE acc)

\* the first loop; the result is [assigned |-> dict, used_names |-> set]
NameTable(t) ==
    For(Walk(t, 1), [assigned |-> <<>>, used_names |-> {}],
        LAMBDA acc, n :
            LET node == t[n]
            IN  IF node.type = "Name" /\ node.ctx = "Store"
                THEN IF ~StartsWithUnderscore(node.id)
                     THEN [acc EXCEPT !.assigned = DictSet(@, node.id, node.lineno)]
                     ELSE acc
                ELSE IF node.type = "Name" /\ node.ctx = "Load"
                THEN [acc EXCEPT !.used_names = @ \cup {node.id}]
                ELSE acc)

\* the last loop: for name, lineno in assigned.items()
ReportVariables(assigned, used_names, suggestions0) ==
    For(assigned, suggestions0,
        LAMBDA sugg, item :
            LET name == item.key
                lineno == item.value
            IN  IF name \notin used_names
                THEN Append(sugg,
                         Finding("unused_variable",
                                 <<"Variavel '">> \o name
                                   \o <<"' e atribuida mas nunca utilizada.">>,
                                 "info", lineno, None, [symbol |-> name]))
                ELSE sugg)

\* check_unused_variables putting its findings at the head of the list
prepend_unused_variables(t, sugg) ==
    ReportVariables(NameTable(t).assigned, NameTable(t).used_names, <<>>) \o sugg

check_unused_variables(t, sugg) ==
    ReportVariables(NameTable(t).assigned, NameTable(t).used_names, sugg)

-----------------------------------------------------------------------------
(* CodeAnalyzer._check_function_metrics *)

MaxFunctionLength == 50
MaxComplexity == 10

BranchTypes ==
    {"If", "For", "AsyncFor", "While", "With", "AsyncWith", "Try", "BoolOp",
     "comprehension"}

\* calculate_cyclomatic_complexity counting from 0
complexity_from_zero(t, n) ==
    For(Walk(t, n), 0,
        LAMBDA complexity, c :
            IF t[c].type \in BranchTypes THEN complexity + 1
            ELSE IF t[c].type = "ExceptHandler" THEN complexity + 1
            ELSE complexity)

calculate_cyclomatic_complexity(t, n) ==
    For(Walk(t, n), 1,
        LAMBDA complexity, c :
            IF t[c].type \in BranchTypes THEN complexity + 1
            ELSE IF t[c].type = "ExceptHandler" THEN complexity + 1
            ELSE complexity)

\* FunctionMetrics with the length compared by >=
FunctionMetricsInclusive(t, n, sugg) ==
    LET node == t[n]
        function_length == node.end_lineno - node.lineno + 1
        complexity == calculate_cyclomatic_complexity(t, n)
        s1 == IF function_length >= MaxFunctionLength
              THEN Append(sugg,
                       Finding("long_function",
                               <<"Funcao '">> \o node.name \o <<"' possui ">>
                                 \o IntStr(function_length)
                                 \o <<" linhas (maximo recomendado: 50).">>,
                               "warning", node.lineno, None,
                               [length |-> function_length]))
              ELSE sugg
    IN  IF complexity > MaxComplexity
        THEN Append(s1,
                 Finding("high_cyclomatic_complexity",
                         <<"Funcao '">> \o node.name
                           \o <<"' possui complexidade ciclomatica ">>
                           \o IntStr(complexity)
                           \o <<" (maximo recomendado: 10).">>,
                         "warning", node.lineno, None,
                         [complexity |-> complexity]))
        ELSE s1

\* the body of the loop for one ast.FunctionDef node
FunctionMetrics(t, n, sugg) ==
    LET node == t[n]
        function_length == node.end_lineno - node.lineno + 1
        complexity == calculate_cyclomatic_complexity(t, n)
        s1 == IF function_length > MaxFunctionLength
              THEN Append(sugg,
                       Finding("long_function",
                               <<"Funcao '">> \o node.name \o <<"' possui ">>
                                 \o IntStr(function_length)
                                 \o <<" linhas (maximo recomendado: 50).">>,
                               "warning", node.lineno, None,
                               [length |-> function_length]))
              ELSE sugg
    IN  IF complexity > MaxComplexity
        THEN Append(s1,
                 Finding("high_cyclomatic_complexity",
                         <<"Funcao '">> \o node.name
                           \o <<"' possui complexidade ciclomatica ">>
                           \o IntStr(complexity)
                           \o <<" (maximo recomendado: 10).">>,
                         "warning", node.lineno, None,
                         [complexity |-> complexity]))
        ELSE s1

check_function_metrics(t, suggestions0) ==
    For(Walk(t, 1), suggestions0,
        LAMBDA sugg, n :
            IF t[n].type = "FunctionDef" THEN FunctionMetrics(t, n, sugg)
            ELSE sugg)

-----------------------------------------------------------------------------
(* CodeAnalyzer._check_naming_conventions *)

Lower ==
    {"a", "b", "c", "d", "e", "f", "g", "h", "i", "j", "k", "l", "m", "n", "o",
     "p", "q", "r", "s", "t", "u", "v", "w", "x", "y", "z"}
Digits == {"0", "1", "2", "3", "4", "5", "6", "7", "8", "9"}

\* SNAKE_CASE_PATTERN.match(s): ^[a-z_][a-z0-9_]*$
SnakeCaseMatch(s) ==
    /\ Len(s) >= 1
    /\ s[1] \in Lower \cup {"_"}
    /\ \A i \in 2..Len(s) : s[i] \in Lower \cup Digits \cup {"_"}

\* add_suggestion with the severity of a failure
add_suggestion_error(sugg, name, lineno, rule, entity) ==
    Append(sugg,
           Finding(rule,
                   <<entity, " '">> \o name
                     \o <<"' deveria seguir PEP 8 (snake_case).">>,
                   "error", lineno, None, [name |-> name]))

add_suggestion(sugg, name, lineno, rule, entity) ==
    Append(sugg,
           Finding(rule,
                   <<entity, " '">> \o name
                     \o <<"' deveria seguir PEP 8 (snake_case).">>,
                   "info", lineno, None, [name |-> name]))

\* NamingTargets without the startswith("_") test
NamingTargetsNoExempt(t, node, suggestions0) ==
    For(node.targets, suggestions0,
        LAMBDA sugg, n :
            LET target == t[n]
            IN  IF target.type = "Name" /\ ~SnakeCaseMatch(target.id)
                THEN add_suggestion(sugg, target.id, target.lineno,
                                    "variable_naming", "Variavel")
                ELSE sugg)

\* for target in node.targets
NamingTargets(t, node, suggestions0) ==
    For(node.targets, suggestions0,
        LAMBDA sugg, n :
            LET target == t[n]
            IN  IF /\ target.type = "Name"
                   /\ ~StartsWithUnderscore(target.id)
                   /\ ~SnakeCaseMatch(target.id)
                THEN add_suggestion(sugg, target.id, target.lineno,
                                    "variable_naming", "Variavel")
                ELSE sugg)

check_naming_conventions(t, suggestions0) ==
    For(Walk(t, 1), suggestions0,
        LAMBDA sugg, n :
            LET node == t[n]
            IN  IF node.type = "FunctionDef"
                THEN IF ~SnakeCaseMatch(node.name)
                     THEN add_suggestion(sugg, node.name, node.lineno,
                                         "function_naming", "Funcao")
                     ELSE sugg
                ELSE IF node.type = "Assign"
                THEN NamingTargets(t, node, sugg)
                ELSE sugg)

-----------------------------------------------------------------------------
(* CodeAnalyzer._check_docstrings *)

RECURSIVE LStrip(_)
\* inspect.cleandoc on a one-line string: leading blanks go, and with them
\* a line that holds nothing else
LStrip(s) == IF s # <<>> /\ Head(s) = " " THEN LStrip(Tail(s)) ELSE s

\* get_docstring with clean=False
get_docstring_raw(t, n) ==
    LET body == t[n].body
    IN  IF body = <<>> \/ t[body[1]].type # "Expr" THEN <<>>
        ELSE LET value == t[t[body[1]].children[1]]
             IN  IF value.type = "Constant" /\ value.kind = "str"
                 THEN value.s
                 ELSE <<>>

\* ast.get_docstring(node); None is <<>>
get_docstring(t, n) ==
    LET body == t[n].body
    IN  IF body = <<>> \/ t[body[1]].type # "Expr" THEN <<>>
        ELSE LET value == t[t[body[1]].children[1]]
             IN  IF value.type = "Constant" /\ value.kind = "str"
                 THEN LStrip(value.s)
                 ELSE <<>>

check_docstrings(t, suggestions0) ==
    For(Walk(t, 1), suggestions0,
        LAMBDA sugg, n :
            LET node == t[n]
            IN  IF /\ node.type \in {"FunctionDef", "AsyncFunctionDef"}
                   /\ ~StartsWithUnderscore(node.name)
                   /\ get_docstring(t, n) = <<>>
                THEN Append(sugg,
                         Finding("missing_docstring",
                                 <<"Funcao '">> \o node.name
                                   \o <<"' deveria conter docstring.">>,
                                 "info", node.lineno, None, <<>>))
                ELSE sugg)

-----------------------------------------------------------------------------
(* CodeAnalyzer._check_print_statements *)

print == <<"p", "r", "i", "n", "t">>

\* check_print_statements matching an attribute named print as well
check_print_any_callee(t, suggestions0) ==
    For(Walk(t, 1), suggestions0,
        LAMBDA sugg, n :
            LET node == t[n]
            IN  IF /\ node.type = "Call"
                   /\ \/ t[node.func].type = "Name" /\ t[node.func].id = print
                      \/ t[node.func].type = "Attribute" /\ t[node.func].name = print
                THEN Append(sugg,
                         Finding("print_statement",
                                 <<"Considere utilizar logging em vez de print para saida em producao.">>,
                                 "info", node.lineno, node.col_offset, <<>>))
                ELSE sugg)

check_print_statements(t, suggestions0) ==
    For(Walk(t, 1), suggestions0,
        LAMBDA sugg, n :
            LET node == t[n]
            IN  IF /\ node.type = "Call"
                   /\ t[node.func].type = "Name"
                   /\ t[node.func].id = print
                THEN Append(sugg,
                         Finding("print_statement",
                                 <<"Considere utilizar logging em vez de print para saida em producao.">>,
                                 "info", node.lineno, node.col_offset, <<>>))
                ELSE sugg)

-----------------------------------------------------------------------------
(* The rule classes of app/services/analysis_rules: the same checks, each  *)
(* packaged as a BaseAnalysisRule.                                         *)

Rules ==
    {"ImportAnalysisRule", "UnusedVariableRule", "FunctionMetricsRule",
     "NamingConventionRule", "DocstringRule", "PrintStatementRule"}

\* the name of the class where its rule_id is meant
rule_class_name(r) == r

\* the class attribute rule_id
rule_id(r) ==
    CASE r = "ImportAnalysisRule" -> "unused_import"
      [] r = "UnusedVariableRule" -> "unused_variable"
      [] r = "FunctionMetricsRule" -> "function_metrics"
      [] r = "NamingConventionRule" -> "naming_conventions"
      [] r = "DocstringRule" -> "missing_docstring"
      [] r = "PrintStatementRule" -> "print_statement"

-----------------------------------------------------------------------------
(* ImportAnalysisRule._analyze *)

\* for alias in node.names (ast.Import)
RuleImportAliases(node, imports) ==
    For(node.names, imports,
        LAMBDA d, alias :
            LET name == Or(alias.asname, FirstSegment(alias.name))
            IN  DictSet(d, name, node.lineno))

\* for alias in node.names (ast.ImportFrom)
RuleImportFromAliases(node, imports) ==
    LET module == Or(node.module, <<>>)
    IN  For(node.names, imports,
            LAMBDA d, alias :
                LET name == Or(alias.asname, alias.name)
                    key == IF module # <<>> THEN Dotted(module, name) ELSE name
                IN  DictSet(d, key, node.lineno))

\* the first loop: for node in ast.walk(tree)
RuleImportTable(t) ==
    For(Walk(t, 1), <<>>,
        LAMBDA imports, n :
            IF t[n].type = "Import" THEN RuleImportAliases(t[n], imports)
            ELSE IF t[n].type = "ImportFrom" THEN RuleImportFromAliases(t[n], imports)
            ELSE imports)

\* the last loop: for name, lineno in imports.items()
RuleReportImports(imports, used_names, suggestions0) ==
    For(imports, suggestions0,
        LAMBDA sugg, item :
            LET name == item.key
                lineno == item.value
                base_name == FirstSegment(name)
            IN  IF base_name \notin used_names
                THEN Append(sugg,
                         Finding(rule_id("ImportAnalysisRule"),
                                 <<"Importacao '">> \o name \o <<"' nao e utilizada.">>,
                                 "warning", lineno, None, [symbol |-> name]))
                ELSE sugg)

ImportAnalysisRule(t, sugg) == RuleReportImports(RuleImportTable(t), LoadedNames(t), sugg)

-----------------------------------------------------------------------------
(* UnusedVariableRule._analyze *)

\* the first loop; the result is [assigned |-> dict, used_names |-> set]
RuleNameTable(t) ==
    For(Walk(t, 1), [assigned |-> <<>>, used_names |-> {}],
        LAMBDA acc, n :
            LET node == t[n]
            IN  IF node.type = "Name" /\ node.ctx = "Store"
                THEN IF ~StartsWithUnderscore(node.id)
                     THEN [acc EXCEPT !.assigned = DictSet(@, node.id, node.lineno)]
                     ELSE acc
                ELSE IF node.type = "Name" /\ node.ctx = "Load"
                THEN [acc EXCEPT !.used_names = @ \cup {node.id}]
                ELSE acc)

\* the last loop: for name, lineno in assigned.items()
RuleReportVariables(assigned, used_names, suggestions0) ==
    For(assigned, suggestions0,
        LAMBDA sugg, item :
            LET name == item.key
                lineno == item.value
            IN  IF name \notin used_names
                THEN Append(sugg,
                         Finding(rule_id("UnusedVariableRule"),
                                 <<"Variavel '">> \o name
                                   \o <<"' e atribuida mas nunca utilizada.">>,
                                 "info", lineno, None, [symbol |-> name]))
                ELSE sugg)

UnusedVariableRule(t, sugg) ==
    RuleReportVariables(RuleNameTable(t).assigned, RuleNameTable(t).used_names, sugg)

-----------------------------------------------------------------------------
(* FunctionMetricsRule._analyze *)

RuleMaxFunctionLength == 50
RuleMaxComplexity == 10

RuleBranchTypes ==
    {"If", "For", "AsyncFor", "While", "With", "AsyncWith", "Try", "BoolOp",
     "comprehension"}

rule_calculate_cyclomatic_complexity(t, n) ==
    For(Walk(t, n), 1,
        LAMBDA complexity, c :
            IF t[c].type \in RuleBranchTypes THEN complexity + 1
            ELSE IF t[c].type = "ExceptHandler" THEN complexity + 1
            ELSE complexity)

\* the body of the loop for one ast.FunctionDef node
RuleFunctionMetrics(t, n, sugg) ==
    LET node == t[n]
        function_length == node.end_lineno - node.lineno + 1
        complexity == rule_calculate_cyclomatic_complexity(t, n)
        s1 == IF function_length > RuleMaxFunctionLength
              THEN Append(sugg,
                       Finding("long_function",
                               <<"Funcao '">> \o node.name \o <<"' possui ">>
                                 \o IntStr(function_length)
                                 \o <<" linhas (maximo recomendado: 50).">>,
                               "warning", node.lineno, None,
                               [length |-> function_length]))
              ELSE sugg
    IN  IF complexity > RuleMaxComplexity
        THEN Append(s1,
                 Finding("high_cyclomatic_complexity",
                         <<"Funcao '">> \o node.name
                           \o <<"' possui complexidade ciclomatica ">>
                           \o IntStr(complexity)
                           \o <<" (maximo recomendado: 10).">>,
                         "warning", node.lineno, None,
                         [complexity |-> complexity]))
        ELSE s1

FunctionMetricsRule(t, suggestions0) ==
    For(Walk(t, 1), suggestions0,
        LAMBDA sugg, n :
            IF t[n].type = "FunctionDef" THEN RuleFunctionMetrics(t, n, sugg)
            ELSE sugg)

-----------------------------------------------------------------------------
(* NamingConventionRule._analyze *)

\* naming.SNAKE_CASE_PATTERN.match(s): ^[a-z_][a-z0-9_]*$
RuleSnakeCaseMatch(s) ==
    /\ Len(s) >= 1
    /\ s[1] \in Lower \cup {"_"}
    /\ \A i \in 2..Len(s) : s[i] \in Lower \cup Digits \cup {"_"}

\* rule_add_suggestion reporting under self.rule_id, as the other rules do
rule_add_suggestion_self(sugg, name, lineno, rule, entity) ==
    Append(sugg,
           Finding(rule_id("NamingConventionRule"),
                   <<entity, " '">> \o name
                     \o <<"' deveria seguir PEP 8 (snake_case).">>,
                   "info", lineno, None, [name |-> name]))

rule_add_suggestion(sugg, name, lineno, rule, entity) ==
    Append(sugg,
           Finding(rule,
                   <<entity, " '">> \o name
                     \o <<"' deveria seguir PEP 8 (snake_case).">>,
                   "info", lineno, None, [name |-> name]))

\* for target in node.targets
RuleNamingTargets(t, node, suggestions0) ==
    For(node.targets, suggestions0,
        LAMBDA sugg, n :
            LET target == t[n]
            IN  IF /\ target.type = "Name"
                   /\ ~StartsWithUnderscore(target.id)
                   /\ ~RuleSnakeCaseMatch(target.id)
                THEN rule_add_suggestion(sugg, target.id, target.lineno,
                                    "variable_naming", "Variavel")
                ELSE sugg)

NamingConventionRule(t, suggestions0) ==
    For(Walk(t, 1), suggestions0,
        LAMBDA sugg, n :
            LET node == t[n]
            IN  IF node.type = "FunctionDef"
                THEN IF ~RuleSnakeCaseMatch(node.name)
                     THEN rule_add_suggestion(sugg, node.name, node.lineno,
                                         "function_naming", "Funcao")
                     ELSE sugg
                ELSE IF node.type = "Assign"
                THEN RuleNamingTargets(t, node, sugg)
                ELSE sugg)

-----------------------------------------------------------------------------
(* DocstringRule._analyze *)

DocstringRule(t, suggestions0) ==
    For(Walk(t, 1), suggestions0,
        LAMBDA sugg, n :
            LET node == t[n]
            IN  IF /\ node.type \in {"FunctionDef", "AsyncFunctionDef"}
                   /\ ~StartsWithUnderscore(node.name)
                   /\ get_docstring(t, n) = <<>>
                THEN Append(sugg,
                         Finding(rule_id("DocstringRule"),
                                 <<"Funcao '">> \o node.name
                                   \o <<"' deveria conter docstring.">>,
                                 "info", node.lineno, None, <<>>))
                ELSE sugg)

-----------------------------------------------------------------------------
(* PrintStatementRule._analyze *)

PrintStatementRule(t, suggestions0) ==
    For(Walk(t, 1), suggestions0,
        LAMBDA sugg, n :
            LET node == t[n]
            IN  IF /\ node.type = "Call"
                   /\ t[node.func].type = "Name"
                   /\ t[node.func].id = print
                THEN Append(sugg,
                         Finding(rule_id("PrintStatementRule"),
                                 <<"Considere utilizar logging em vez de print para saida em producao.">>,
                                 "info", node.lineno, node.col_offset, <<>>))
                ELSE sugg)

-----
(* Inputs *)

math == <<"m", "a", "t", "h">>
foo == <<"f", "o", "o">>
CamelCaseFunction == <<"C", "a", "m", "e", "l">>
unused_var == <<"u", "_", "v">>
hello == <<"h", "i">>

\* def foo():\n    return 1\n
ScenarioA == <<Line(0, SDef(foo)), Line(1, SReturn(ENum))>>

\* def broken(:\n    pass
ScenarioB == <<Line(0, SBroken), Line(1, SPass)>>

\* the source of test_analyze_detects_style_issues
ScenarioC ==
    <<Line(0, SBlank),
      Line(0, SImport(<<Alias(math, <<>>)>>)),
      Line(0, SBlank),
      Line(0, SBlank),
      Line(0, SDef(CamelCaseFunction)),
      Line(1, SAssign(unused_var, ENum)),
      Line(1, SExpr(ECall(EName(print), <<EStr(hello)>>))),
      Line(1, SReturn(ENum))>>

SeqsUpTo(S, n) == UNION {[1..m -> S] : m \in 0..n}

EngineLines ==
    {Line(0, SImport(<<Alias(math, <<>>)>>)),
     Line(0, SAssign(unused_var, ENum)),
     Line(0, SDef(CamelCaseFunction)),
     Line(0, SExpr(ECall(EName(print), <<EStr(hello)>>))),
     Line(0, SBroken),
     Line(1, SAssign(unused_var, ENum)),
     Line(1, SExpr(ECall(EName(print), <<EStr(hello)>>))),
     Line(1, SReturn(EName(unused_var)))}

\* def foo(): with n lines of body
LongFunction(n) ==
    <<Line(0, SDef(foo))>> \o [i \in 1..n |-> Line(1, SPass)]

\* import math, then a function one line over the recommended length
ScenarioLong ==
    <<Line(0, SImport(<<Alias(math, <<>>)>>))>> \o LongFunction(MaxFunctionLength)

EngineSources ==
    SeqsUpTo(EngineLines, MaxLines)
        \cup {ScenarioA, ScenarioB, ScenarioC, ScenarioLong}

\* def foo(): with n independent one-line if statements
BranchyFunction(n) ==
    <<Line(0, SDef(foo))>>
        \o [i \in 1..(2 * n) |->
               IF i % 2 = 1 THEN Line(1, SIf(EName(unused_var)))
               ELSE Line(2, SPass)]

\* def Camel(): with a variable X in it
ScenarioNaming ==
    <<Line(0, SDef(CamelCaseFunction)), Line(1, SAssign(<<"X">>, ENum))>>

RulesSources ==
    EngineSources
        \cup {LongFunction(MaxFunctionLength), BranchyFunction(MaxComplexity),
              ScenarioNaming}

\* import statements, and reads of the names they bind
ImportLines ==
    {Line(0, SImport(<<Alias(<<"a", ".", "b">>, <<>>)>>)),
     Line(0, SImport(<<Alias(<<"a", ".", "b">>, <<"c">>), Alias(<<"m">>, <<>>)>>)),
     Line(0, SFrom(<<"m", ".", "n">>, <<Alias(<<"x">>, <<"y">>)>>)),
     Line(0, SFrom(<<>>, <<Alias(<<"a">>, <<>>)>>)),
     Line(0, SExpr(EAttribute(EName(<<"a">>), <<"b">>))),
     Line(0, SExpr(ECall(EName(<<"x">>), <<EName(<<"m">>)>>))),
     Line(0, SAssign(<<"c">>, ENum))}

\* an import in a function body, then imports of the same key at top level
NestedImport ==
    <<Line(0, SDef(foo)),
      Line(1, SImport(<<Alias(<<"a", ".", "b">>, <<>>)>>)),
      Line(0, SFrom(<<>>, <<Alias(<<"a">>, <<>>)>>))>>

\* from m import x; import a.b; x(m)
DottedImport ==
    <<Line(0, SFrom(<<"m">>, <<Alias(<<"x">>, <<>>)>>)),
      Line(0, SImport(<<Alias(<<"a", ".", "b">>, <<>>)>>)),
      Line(0, SExpr(ECall(EName(<<"x">>), <<EName(<<"m">>)>>)))>>

ImportSources ==
    SeqsUpTo(ImportLines, MaxLines) \cup {NestedImport, DottedImport}

\* assignments, and reads of the names they bind
VariableLines ==
    {Line(0, SAssign(<<"x">>, ENum)),
     Line(0, SAssign(<<"_", "t">>, ENum)),
     Line(0, SAssign(<<"y">>, EName(<<"x">>))),
     Line(0, SAssign(<<"x">>, EName(<<"_", "t">>))),
     Line(0, SExpr(ECall(EName(print), <<EName(<<"y">>)>>))),
     Line(0, SDef(foo)),
     Line(1, SAssign(<<"x">>, ENum)),
     Line(1, SReturn(EName(<<"y">>)))}

\* an assignment in a function body, then one to the same name at top
\* level, and one to an underscore name
NestedAssign ==
    <<Line(0, SDef(foo)),
      Line(1, SAssign(<<"x">>, ENum)),
      Line(0, SAssign(<<"x">>, ENum)),
      Line(0, SAssign(<<"_", "t">>, ENum))>>

VariableSources == SeqsUpTo(VariableLines, MaxLines) \cup {NestedAssign}

IdemLines ==
    {Line(0, SImport(<<Alias(math, <<>>)>>)),
     Line(0, SExpr(ECall(EName(print), <<EStr(hello)>>))),
     Line(0, SBroken)}

IdemSources == SeqsUpTo(IdemLines, MaxLines)

\* async def foo(): with n lines of body
AsyncLongFunction(n) ==
    <<Line(0, SAsyncDef(foo))>> \o [i \in 1..n |-> Line(1, SPass)]

\* def foo(): holding def hi(): with n loops "while u_v and u_v: pass"
NestedBranchyFunction(n) ==
    <<Line(0, SDef(foo)), Line(1, SDef(hello))>>
        \o [i \in 1..(2 * n) |->
               IF i % 2 = 1
               THEN Line(2, SWhile(EBoolOp(EName(unused_var), EName(unused_var))))
               ELSE Line(3, SPass)]

\* functions on both sides of the two thresholds
MetricsSources ==
    {LongFunction(MaxFunctionLength - 2), LongFunction(MaxFunctionLength - 1),
     LongFunction(MaxFunctionLength), AsyncLongFunction(MaxFunctionLength),
     BranchyFunction(MaxComplexity - 1), BranchyFunction(MaxComplexity),
     BranchyFunction(MaxComplexity + 1),
     NestedBranchyFunction(4), NestedBranchyFunction(5),
     ScenarioA, ScenarioC}

\* definitions and assignments of names in and out of snake_case
NamingLines ==
    {Line(0, SDef(CamelCaseFunction)),
     Line(0, SDef(foo)),
     Line(0, SAsyncDef(CamelCaseFunction)),
     Line(1, SAssign(<<"X">>, ENum)),
     Line(0, SAssign(<<"X">>, ENum)),
     Line(0, SAssign(<<"_", "X">>, ENum)),
     Line(0, SAssign(unused_var, ENum))}

NamingSources == SeqsUpTo(NamingLines, MaxLines) \cup {ScenarioC, ScenarioNaming}

\* def foo(): with a string of no characters as its first statement
EmptyDocstring == <<Line(0, SDef(foo)), Line(1, SExpr(EStr(<<>>)))>>

\* def foo(): with a string after its first statement
LateDocstring ==
    <<Line(0, SDef(foo)), Line(1, SPass), Line(1, SExpr(EStr(hello)))>>

\* def foo(): holding def hi():, then def math():, none with a docstring
NestedFunctions ==
    <<Line(0, SDef(foo)), Line(1, SDef(hello)), Line(2, SPass),
      Line(0, SDef(math)), Line(1, SPass)>>

\* def foo(): holding def hi(): y = 1 and x = 1, then def math(): x = 1
NestedNames ==
    <<Line(0, SDef(foo)),
      Line(1, SDef(hello)),
      Line(2, SAssign(<<"y">>, ENum)),
      Line(1, SAssign(<<"x">>, ENum)),
      Line(0, SDef(math)),
      Line(1, SAssign(<<"x">>, ENum))>>

\* definitions, and first statements that are or are not a docstring
DocstringLines ==
    {Line(0, SDef(foo)),
     Line(0, SDef(<<"_", "f">>)),
     Line(0, SAsyncDef(foo)),
     Line(1, SExpr(EStr(hello))),
     Line(1, SExpr(EStr(<<" ">>))),
     Line(1, SPass)}

DocstringSources ==
    SeqsUpTo(DocstringLines, MaxLines)
        \cup {EmptyDocstring, LateDocstring, NestedFunctions, NestedNames,
              ScenarioC}

\* x = print(1)
AssignedPrint == <<Line(0, SAssign(<<"x">>, ECall(EName(print), <<ENum>>)))>>

\* calls of print, of an attribute print and of other names
PrintLines ==
    {Line(0, SExpr(ECall(EName(print), <<EStr(hello)>>))),
     Line(0, SExpr(ECall(EName(print), <<ECall(EName(print), <<ENum>>)>>))),
     Line(0, SExpr(ECall(EAttribute(EName(foo), print), <<ENum>>))),
     Line(0, SExpr(ECall(EName(foo), <<EName(print)>>))),
     Line(0, SAssign(<<"x">>, ECall(EName(print), <<ENum>>))),
     Line(0, SDef(foo)),
     Line(1, SExpr(ECall(EName(print), <<EStr(hello)>>)))}

PrintSources == SeqsUpTo(PrintLines, MaxLines) \cup {ScenarioC}

\* the sources of calls that overlap
ConcurrentSources ==
    {ScenarioA, ScenarioB, ScenarioC, <<Line(0, SImport(<<Alias(math, <<>>)>>))>>}

\* sources that make every check report
PackagingSources ==
    RulesSources \cup ImportSources \cup VariableSources \cup MetricsSources
        \cup NamingSources \cup DocstringSources \cup PrintSources

\* the sources sent to the service
ServiceSources ==
    {ScenarioA, ScenarioB, <<Line(0, SImport(<<Alias(math, <<>>)>>))>>}

Sources(f) ==
    CASE f = "engine" -> EngineSources
      [] f = "service" -> ServiceSources
      [] f = "seeded" -> {ScenarioA, ScenarioB}
      [] f = "flags" -> {ScenarioA}
      [] f = "repeat" -> {ScenarioA}
      [] f = "packaging" -> PackagingSources
      [] f = "concurrent" -> ConcurrentSources
      [] f = "prints" -> PrintSources
      [] f = "docstrings" -> DocstringSources
      [] f = "naming" -> NamingSources
      [] f = "metrics" -> MetricsSources
      [] f = "imports" -> ImportSources
      [] f = "variables" -> VariableSources
      [] f = "idem" -> IdemSources
      [] f = "rules" -> RulesSources

Trees(f) == {Parse(src).tree : src \in {x \in Sources(f) : Parse(x).ok}}

-----
(* CodeAnalyzer.analyze, one action per statement of its body *)

NoTree == <<>>
NoResult == [kind |-> "none"]
NoPrior == [kind |-> "none"]

\* a list kept on the analyzer between calls
StaleSuggestions(t) == suggestions[t]

\* one list on the shared analyzer: a call starts from what another call
\* has put there
SharedSuggestions(t) == suggestions[CHOOSE u \in Threads : u # t]

\* suggestions: List[Dict[str, Any]] = []
FreshSuggestions(t) == <<>>

\* the subtraction turned round
ElapsedBackwards(s, n) == (s - n) \div 2

\* int((time.perf_counter() - start) * 1000); the clock counts half
\* milliseconds
ElapsedMs(s, n) == (n - s) \div 2

AnalysisResult(sugg, ms) ==
    [kind |-> "returned", suggestions |-> sugg, analysis_time_ms |-> ms]

\* time passes
Tick ==
    /\ now < MaxClock
    /\ now' = now + 1
    /\ UNCHANGED <<callVars, prior, family, backendVars, harnessVars, serviceVars>>

\* analyze(code) is entered: start = time.perf_counter(); suggestions = []
Enter(t, src) ==
    /\ pc[t] \in {"idle", "returned", "raised"}
    /\ code' = [code EXCEPT ![t] = src]
    /\ start' = [start EXCEPT ![t] = now]
    /\ suggestions' = [suggestions EXCEPT ![t] = FreshSuggestions(t)]
    /\ tree' = [tree EXCEPT ![t] = NoTree]
    /\ result' = [result EXCEPT ![t] = NoResult]
    /\ executed' = [executed EXCEPT ![t] = <<>>]
    /\ pc' = [pc EXCEPT ![t] = "parse"]

\* a caller calls analyze on some source
Call(t) ==
    /\ \E src \in Sources(family) : Enter(t, src)
    /\ UNCHANGED <<now, prior, family, backendVars, harnessVars, serviceVars>>

\* ParseStep with an except clause that appends nothing
ParseStepQuiet(t) ==
    /\ pc[t] = "parse"
    /\ LET p == Parse(code[t])
       IN  IF p.ok
           THEN /\ tree' = [tree EXCEPT ![t] = p.tree]
                /\ pc' = [pc EXCEPT ![t] = "imports"]
                /\ UNCHANGED <<suggestions, result>>
           ELSE /\ result' = [result EXCEPT ![t] =
                                 AnalysisResult(suggestions[t],
                                                ElapsedMs(start[t], now))]
                /\ pc' = [pc EXCEPT ![t] = "returned"]
                /\ UNCHANGED <<tree, suggestions>>
    /\ UNCHANGED <<now, code, start, executed, prior, family, backendVars, harnessVars, serviceVars>>

\* try: tree = ast.parse(code) / except SyntaxError: ... return
ParseStep(t) ==
    /\ pc[t] = "parse"
    /\ LET p == Parse(code[t])
       IN  IF p.ok
           THEN /\ tree' = [tree EXCEPT ![t] = p.tree]
                /\ pc' = [pc EXCEPT ![t] = "imports"]
                /\ UNCHANGED <<suggestions, result>>
           ELSE LET sugg ==
                        Append(suggestions[t],
                               Finding("syntax_error",
                                       <<"Erro de sintaxe: ", p.exc.msg>>,
                                       "error", p.exc.lineno, p.exc.offset, <<>>))
                IN  /\ suggestions' = [suggestions EXCEPT ![t] = sugg]
                    /\ result' = [result EXCEPT ![t] =
                                     AnalysisResult(sugg, ElapsedMs(start[t], now))]
                    /\ pc' = [pc EXCEPT ![t] = "returned"]
                    /\ UNCHANGED tree
    /\ UNCHANGED <<now, code, start, executed, prior, family, backendVars, harnessVars, serviceVars>>

\* one of the six self._check_...(tree, suggestions) statements
RunCheck(t, at, sugg, next) ==
    /\ pc[t] = at
    /\ suggestions' = [suggestions EXCEPT ![t] = sugg]
    /\ executed' = [executed EXCEPT ![t] = Append(@, at)]
    /\ pc' = [pc EXCEPT ![t] = next]
    /\ UNCHANGED <<now, code, start, tree, result, prior, family, backendVars, harnessVars, serviceVars>>

CheckImports(t) ==
    RunCheck(t, "imports", check_imports(tree[t], suggestions[t]), "variables")

CheckUnusedVariables(t) ==
    RunCheck(t, "variables", check_unused_variables(tree[t], suggestions[t]),
             "metrics")

CheckFunctionMetrics(t) ==
    RunCheck(t, "metrics", check_function_metrics(tree[t], suggestions[t]),
             "naming")

CheckNamingConventions(t) ==
    RunCheck(t, "naming", check_naming_conventions(tree[t], suggestions[t]),
             "docstrings")

CheckDocstrings(t) ==
    RunCheck(t, "docstrings", check_docstrings(tree[t], suggestions[t]), "prints")

CheckPrintStatements(t) ==
    RunCheck(t, "prints", check_print_statements(tree[t], suggestions[t]),
             "finish")

CheckPcs == {"imports", "variables", "metrics", "naming", "docstrings", "prints"}

\* CheckRaises under an except clause that returns the findings so far
CheckSwallowed(t) ==
    /\ pc[t] \in CheckPcs
    /\ result' = [result EXCEPT ![t] =
                     AnalysisResult(suggestions[t], ElapsedMs(start[t], now))]
    /\ pc' = [pc EXCEPT ![t] = "raised"]
    /\ UNCHANGED <<now, code, start, tree, suggestions, executed, prior, family, backendVars,
                   harnessVars, serviceVars>>

\* a check raises: no except clause encloses the six calls, the exception
\* leaves analyze
CheckRaises(t) ==
    /\ pc[t] \in CheckPcs
    /\ result' = [result EXCEPT ![t] = [kind |-> "raised", at |-> pc[t]]]
    /\ pc' = [pc EXCEPT ![t] = "raised"]
    /\ UNCHANGED <<now, code, start, tree, suggestions, executed, prior, family, backendVars,
                   harnessVars, serviceVars>>

\* elapsed_ms = ...; return AnalysisResult(...)
Finish(t) ==
    /\ pc[t] = "finish"
    /\ result' = [result EXCEPT ![t] =
                     AnalysisResult(suggestions[t], ElapsedMs(start[t], now))]
    /\ pc' = [pc EXCEPT ![t] = "returned"]
    /\ UNCHANGED <<now, code, start, tree, suggestions, executed, prior, family, backendVars,
                   harnessVars, serviceVars>>

InitCalls ==
    /\ now = 0
    /\ pc = [t \in Threads |-> "idle"]
    /\ code = [t \in Threads |-> <<>>]
    /\ start = [t \in Threads |-> 0]
    /\ tree = [t \in Threads |-> NoTree]
    /\ suggestions = [t \in Threads |-> <<>>]
    /\ result = [t \in Threads |-> NoResult]
    /\ executed = [t \in Threads |-> <<>>]
    /\ prior = NoPrior

InitHarness ==
    /\ rtree = NoTree
    /\ sink = <<>>
    /\ ran = <<>>

NoResponse == [kind |-> "none"]

\* the calls made on one service: one more where a claim follows an entry
\* through a miss, its expiry, a second miss and a hit
Requests(f) == IF f = "repeat" THEN MaxRequests + 1 ELSE MaxRequests

\* no analyze_code call has been made
NoRequest ==
    [pc |-> "idle", served |-> 0, code |-> <<>>, language_version |-> <<>>,
     use_cache |-> TRUE, persist |-> TRUE, code_hash |-> <<>>,
     cache_key |-> <<>>, result |-> NoResult, response |-> NoResponse,
     calls |-> 0, before |-> <<>>, miss |-> FALSE, sets |-> <<>>,
     misses |-> <<>>]

\* an empty cache and an empty table
InitService ==
    /\ cache = <<>>
    /\ history = <<>>
    /\ request = NoRequest

NoCall == [n |-> 0, op |-> "none"]

\* Redis is up or down; no CacheService has been constructed
InitBackend ==
    /\ client = "unbuilt"
    /\ redis \in {[up |-> TRUE, store |-> <<>>], [up |-> FALSE, store |-> <<>>]}
    /\ memory = <<>>
    /\ lastcall = NoCall
    /\ written = <<>>
    /\ dbcall = NoCall

\* the cache service stands by, unused
IdleBackend ==
    /\ client = "unbuilt"
    /\ redis = [up |-> FALSE, store |-> <<>>]
    /\ memory = <<>>
    /\ lastcall = NoCall
    /\ written = <<>>
    /\ dbcall = NoCall

InitOf(f) ==
    /\ family = f
    /\ InitCalls
    /\ InitHarness
    /\ InitService
    /\ IdleBackend

Init == InitOf("engine")

\* requests are served one at a time, or by a pool of threads that share
\* the analyzer of get_code_analyzer
Callers == IF family = "concurrent" THEN Threads ELSE {1}

Next ==
    \/ Tick
    \/ \E t \in Callers :
          \/ Call(t)
          \/ ParseStep(t)
          \/ CheckImports(t)
          \/ CheckUnusedVariables(t)
          \/ CheckFunctionMetrics(t)
          \/ CheckNamingConventions(t)
          \/ CheckDocstrings(t)
          \/ CheckPrintStatements(t)
          \/ CheckRaises(t)
          \/ Finish(t)

\* analyze on sources of every shape
Spec == Init /\ [][Next]_vars

\* analyze on sources made of imports
SpecImports == InitOf("imports") /\ [][Next]_vars

\* analyze on sources made of assignments
SpecVariables == InitOf("variables") /\ [][Next]_vars

\* analyze on functions near the length and complexity thresholds
SpecMetrics == InitOf("metrics") /\ [][Next]_vars

\* analyze on definitions and assignments of names
SpecNaming == InitOf("naming") /\ [][Next]_vars

\* analyze on definitions with and without docstrings
SpecDocstrings == InitOf("docstrings") /\ [][Next]_vars

\* analyze on calls of print and of other callees
SpecPrints == InitOf("prints") /\ [][Next]_vars

\* analyze called from two threads at once
SpecConcurrent == InitOf("concurrent") /\ [][Next]_vars

\* history: the caller keeps the findings of a call that returned
Remember(t) ==
    /\ pc[t] = "returned"
    /\ prior' = [kind |-> "call", code |-> code[t],
                 suggestions |-> result[t].suggestions,
                 analysis_time_ms |-> result[t].analysis_time_ms]
    /\ prior' # prior
    /\ UNCHANGED <<now, callVars, family, backendVars, harnessVars, serviceVars>>

NextIdem == Next \/ \E t \in Threads : Remember(t)

\* repeated calls of analyze on one analyzer
SpecIdem == InitOf("idem") /\ [][NextIdem]_vars

-----------------------------------------------------------------------------
(* A rule object run by itself: BaseAnalysisRule.analyze *)

\* self._analyze(tree, suggestions), by the class of self
analyze(r, t, sugg) ==
    CASE r = "ImportAnalysisRule" -> ImportAnalysisRule(t, sugg)
      [] r = "UnusedVariableRule" -> UnusedVariableRule(t, sugg)
      [] r = "FunctionMetricsRule" -> FunctionMetricsRule(t, sugg)
      [] r = "NamingConventionRule" -> NamingConventionRule(t, sugg)
      [] r = "DocstringRule" -> DocstringRule(t, sugg)
      [] r = "PrintStatementRule" -> PrintStatementRule(t, sugg)

\* a rule object that remembers its call and reports nothing the second time
RuleAnalyzeOnce(r) ==
    /\ rtree # NoTree
    /\ Len(ran) < MaxRuns
    /\ sink' = IF r \in Range(ran) THEN sink ELSE analyze(r, rtree, sink)
    /\ ran' = Append(ran, r)
    /\ UNCHANGED <<now, callVars, prior, family, backendVars, rtree, serviceVars>>

RuleAnalyze(r) ==
    /\ rtree # NoTree
    /\ Len(ran) < MaxRuns
    /\ sink' = analyze(r, rtree, sink)
    /\ ran' = Append(ran, r)
    /\ UNCHANGED <<now, callVars, prior, family, backendVars, rtree, serviceVars>>

InitRules ==
    /\ family = "rules"
    /\ InitCalls
    /\ rtree \in Trees("rules")
    /\ sink = <<>>
    /\ ran = <<>>
    /\ InitService
    /\ IdleBackend

NextRules == \E r \in Rules : RuleAnalyze(r)

\* rule objects run on a tree, one after the other, on one list
SpecRules == InitRules /\ [][NextRules]_vars

\* the six rule classes, in the order analyze makes its six checks
RuleSequence ==
    <<"ImportAnalysisRule", "UnusedVariableRule", "FunctionMetricsRule",
      "NamingConventionRule", "DocstringRule", "PrintStatementRule">>

\* the next rule of the sequence is run on the shared list
RuleAnalyzeNext ==
    /\ rtree # NoTree
    /\ Len(ran) < Len(RuleSequence)
    /\ sink' = analyze(RuleSequence[Len(ran) + 1], rtree, sink)
    /\ ran' = Append(ran, RuleSequence[Len(ran) + 1])
    /\ UNCHANGED <<now, callVars, prior, family, backendVars, rtree, serviceVars>>

InitPackaging ==
    /\ family = "packaging"
    /\ InitCalls
    /\ rtree \in Trees("packaging")
    /\ sink = <<>>
    /\ ran = <<>>
    /\ InitService
    /\ IdleBackend

NextPackaging == RuleAnalyzeNext

\* the six rule objects run in order on one list
SpecPackaging == InitPackaging /\ [][NextPackaging]_vars

-----------------------------------------------------------------------------
(* CodeAnalysisService.analyze_code, one action per statement.  The         *)
(* analyzer it calls is call 1 of CodeAnalyzer.analyze above.               *)

\* code.encode("utf-8")
encode(text) == [utf8 |-> text]

\* hashlib.sha256(data).hexdigest(): different data, different digests
sha256_hexdigest(data) == [sha256 |-> data]

\* _generate_hash(code)
generate_hash(text) == sha256_hexdigest(encode(text))

\* the key without its prefix
bare_key(code_hash) == <<code_hash>>

\* f"analysis:{code_hash}"
cache_key(code_hash) == <<"analysis:", code_hash>>

\* self._cache.get(key) is not None
cache_has(key) == HasKey(cache, key)

\* self._cache.get(key), where there is a value
cache_get(key) == (CHOOSE i \in 1..Len(cache) : cache[i].key = key)

\* Suggestion(**data)
dict_to_suggestion(data) ==
    [rule_id |-> data.rule_id,
     message |-> data.message,
     severity |-> IF "severity" \in DOMAIN data THEN data.severity ELSE "info",
     line |-> IF "line" \in DOMAIN data THEN data.line ELSE None,
     column |-> IF "column" \in DOMAIN data THEN data.column ELSE None,
     metadata |-> IF "metadata" \in DOMAIN data THEN data.metadata ELSE <<>>]

\* the dict analyze_code returns
Response(code_hash, sugg, ms, cached) ==
    [kind |-> "response", code_hash |-> code_hash,
     suggestions |-> [i \in 1..Len(sugg) |-> dict_to_suggestion(sugg[i])],
     analysis_time_ms |-> ms, cached |-> cached]

\* AnalysisHistory(...), less the id and created_at the database gives
AnalysisHistory(code_hash, code_snippet, sugg, ms, language_version) ==
    [code_hash |-> code_hash, code_snippet |-> code_snippet,
     suggestions |-> sugg, analysis_time_ms |-> ms,
     language_version |-> language_version]

\* session.add(record); session.commit(); session.refresh(record): the row
\* gets its id and, from CURRENT_TIMESTAMP, its created_at
create(table, record) ==
    Append(table,
           [f \in DOMAIN record \cup {"id", "created_at"} |->
               CASE f = "id" -> Len(table) + 1
                 [] f = "created_at" -> now
                 [] OTHER -> record[f]])

\* the rows with code_hash = h
RowsOf(table, h) == {i \in 1..Len(table) : table[i].code_hash = h}

\* the language_version of a request: None, or a version
LanguageVersions == {NoneStr, <<"3", ".", "1", "1">>}

\* the use_cache and persist of a request: the defaults, or any
Flags(f) ==
    IF f = "flags"
    THEN [use_cache : BOOLEAN, persist : BOOLEAN]
    ELSE {[use_cache |-> TRUE, persist |-> TRUE]}

\* analyze_code(code, language_version) is entered:
\* code_hash = self._generate_hash(code); cache_key = f"analysis:{code_hash}"
AnalyzeCode ==
    /\ request.pc \in {"idle", "done", "failed"}
    /\ request.served < Requests(family)
    /\ \E src \in Sources(family), lv \in LanguageVersions, fl \in Flags(family) :
          request' =
              [pc |-> "lookup", served |-> request.served + 1, code |-> src,
               language_version |-> lv, use_cache |-> fl.use_cache,
               persist |-> fl.persist, code_hash |-> generate_hash(src),
               cache_key |-> cache_key(generate_hash(src)),
               result |-> NoResult, response |-> NoResponse,
               calls |-> 0, before |-> history, miss |-> FALSE, sets |-> <<>>,
               misses |-> request.misses]
    /\ UNCHANGED <<now, callVars, prior, family, backendVars, harnessVars, cache, history>>

\* CacheLookup that never finds the key
CacheLookupBlind ==
    /\ request.pc = "lookup"
    /\ request' = [request EXCEPT !.pc = "analyze", !.miss = request.use_cache]
    /\ UNCHANGED <<now, callVars, prior, family, backendVars, harnessVars, cache, history>>

\* CacheLookup with a hit that is written to the table as well
CacheLookupPersisting ==
    /\ request.pc = "lookup"
    /\ IF request.use_cache /\ cache_has(request.cache_key)
       THEN LET cached == cache[cache_get(request.cache_key)].value
            IN  /\ request' =
                       [request EXCEPT
                           !.response = Response(cached.code_hash,
                                                 cached.suggestions,
                                                 cached.analysis_time_ms, TRUE),
                           !.pc = "done"]
                /\ history' =
                       create(history,
                              AnalysisHistory(request.code_hash, request.code,
                                              cached.suggestions,
                                              cached.analysis_time_ms,
                                              request.language_version))
       ELSE /\ request' = [request EXCEPT !.pc = "analyze",
                                          !.miss = request.use_cache]
            /\ history' = history
    /\ UNCHANGED <<now, callVars, prior, family, backendVars, harnessVars, cache>>

\* if use_cache: cached = self._cache.get(cache_key); if cached is not None:
\* return {..., "cached": True}
CacheLookup ==
    /\ request.pc = "lookup"
    /\ IF request.use_cache /\ cache_has(request.cache_key)
       THEN LET cached == cache[cache_get(request.cache_key)].value
            IN  request' =
                    [request EXCEPT
                        !.response = Response(cached.code_hash,
                                              cached.suggestions,
                                              cached.analysis_time_ms, TRUE),
                        !.pc = "done"]
       ELSE request' = [request EXCEPT !.pc = "analyze",
                                       !.miss = request.use_cache]
    /\ UNCHANGED <<now, callVars, prior, family, backendVars, harnessVars, cache, history>>

\* result = self._analyzer.analyze(code): the call is made
ServiceCall ==
    /\ request.pc = "analyze"
    /\ Enter(1, request.code)
    /\ request' = [request EXCEPT !.pc = "analyzing", !.calls = @ + 1]
    /\ UNCHANGED <<now, prior, family, backendVars, harnessVars, cache, history>>

\* analyze raised: the exception leaves analyze_code
AnalyzerRaised ==
    /\ request.pc = "analyzing"
    /\ pc[1] = "raised"
    /\ request' = [request EXCEPT !.pc = "failed"]
    /\ UNCHANGED <<now, callVars, prior, family, backendVars, harnessVars, cache, history>>

\* analyze returned; if persist: self._db_service.create(...)
Persist ==
    /\ request.pc = "analyzing"
    /\ pc[1] = "returned"
    /\ request' = [request EXCEPT !.result = result[1], !.pc = "store"]
    /\ history' =
           IF request.persist
           THEN create(history,
                       AnalysisHistory(request.code_hash, request.code,
                                       result[1].suggestions,
                                       result[1].analysis_time_ms,
                                       request.language_version))
           ELSE history
    /\ UNCHANGED <<now, callVars, prior, family, backendVars, harnessVars, cache>>

\* analyze_code writing the cache entry first and the record after it: the
\* create that fails leaves the entry behind
PersistFailsCached ==
    /\ request.pc = "analyzing"
    /\ pc[1] = "returned"
    /\ request.persist
    /\ LET response_payload ==
               [code_hash |-> request.code_hash,
                suggestions |-> result[1].suggestions,
                analysis_time_ms |-> result[1].analysis_time_ms]
       IN  /\ cache' = DictSet(cache, request.cache_key, response_payload)
           /\ request' =
                  [request EXCEPT
                      !.result = result[1],
                      !.sets = Append(@, [key |-> request.cache_key,
                                          value |-> response_payload]),
                      !.pc = "failed"]
    /\ UNCHANGED <<now, callVars, prior, family, backendVars, harnessVars, history>>

\* analyze returned; self.session.commit() raises in create: no record, and
\* the exception leaves analyze_code
PersistFails ==
    /\ request.pc = "analyzing"
    /\ pc[1] = "returned"
    /\ request.persist
    /\ request' = [request EXCEPT !.result = result[1], !.pc = "failed"]
    /\ UNCHANGED <<now, callVars, prior, family, backendVars, harnessVars, cache, history>>

\* CacheStore writing the cache whatever use_cache says
CacheStoreAlways ==
    /\ request.pc = "store"
    /\ LET response_payload ==
               [code_hash |-> request.code_hash,
                suggestions |-> request.result.suggestions,
                analysis_time_ms |-> request.result.analysis_time_ms]
       IN  /\ cache' = DictSet(cache, request.cache_key, response_payload)
           /\ request' =
                  [request EXCEPT
                      !.sets = Append(@, [key |-> request.cache_key,
                                          value |-> response_payload]),
                      !.pc = "respond"]
    /\ UNCHANGED <<now, callVars, prior, family, backendVars, harnessVars, history>>

\* if use_cache: self._cache.set(cache_key, response_payload)
CacheStore ==
    /\ request.pc = "store"
    /\ LET response_payload ==
               [code_hash |-> request.code_hash,
                suggestions |-> request.result.suggestions,
                analysis_time_ms |-> request.result.analysis_time_ms]
       IN  IF request.use_cache
           THEN /\ cache' = DictSet(cache, request.cache_key, response_payload)
                /\ request' =
                       [request EXCEPT
                           !.sets = Append(@, [key |-> request.cache_key,
                                               value |-> response_payload]),
                           !.pc = "respond"]
           ELSE /\ cache' = cache
                /\ request' = [request EXCEPT !.pc = "respond"]
    /\ UNCHANGED <<now, callVars, prior, family, backendVars, harnessVars, history>>

\* return {..., "cached": False}
Respond ==
    /\ request.pc = "respond"
    /\ request' =
           [request EXCEPT
               !.response = Response(request.code_hash,
                                     request.result.suggestions,
                                     request.result.analysis_time_ms, FALSE),
               !.misses =
                   DictSet(@, request.cache_key,
                           [response |-> Response(request.code_hash,
                                                  request.result.suggestions,
                                                  request.result.analysis_time_ms,
                                                  FALSE),
                            records |-> Cardinality(RowsOf(history,
                                                           request.code_hash))]),
               !.pc = "done"]
    /\ UNCHANGED <<now, callVars, prior, family, backendVars, harnessVars, cache, history>>

\* the time to live of an entry runs out
Expire ==
    /\ \E i \in 1..Len(cache) :
          cache' = SubSeq(cache, 1, i - 1) \o SubSeq(cache, i + 1, Len(cache))
    /\ UNCHANGED <<now, callVars, prior, family, backendVars, harnessVars, history, request>>

NextService ==
    \/ Tick
    \/ AnalyzeCode
    \/ CacheLookup
    \/ ServiceCall
    \/ ParseStep(1)
    \/ CheckImports(1)
    \/ CheckUnusedVariables(1)
    \/ CheckFunctionMetrics(1)
    \/ CheckNamingConventions(1)
    \/ CheckDocstrings(1)
    \/ CheckPrintStatements(1)
    \/ CheckRaises(1)
    \/ Finish(1)
    \/ AnalyzerRaised
    \/ Persist
    \/ PersistFails
    \/ CacheStore
    \/ Respond
    \/ Expire

\* analyze_code calls on one service, one at a time
SpecService == InitOf("service") /\ [][NextService]_vars

\* the payload test_analyze_code_returns_cached_response puts in the cache
SeededPayload(src) ==
    [code_hash |-> generate_hash(src), suggestions |-> <<>>,
     analysis_time_ms |-> 1]

\* someone else writes an entry for a source into the cache
Seed ==
    /\ \E src \in Sources(family) :
          cache' = DictSet(cache, cache_key(generate_hash(src)),
                           SeededPayload(src))
    /\ cache' # cache
    /\ UNCHANGED <<now, callVars, prior, family, backendVars, harnessVars, history, request>>

NextSeeded == NextService \/ Seed

\* analyze_code calls on a cache that others write as well
SpecSeeded == InitOf("seeded") /\ [][NextSeeded]_vars

\* analyze_code calls on one source, again and again
SpecRepeat == InitOf("repeat") /\ [][NextService]_vars

\* analyze_code calls with every combination of use_cache and persist
SpecFlags == InitOf("flags") /\ [][NextSeeded]_vars

-----------------------------------------------------------------------------
(* CacheService: Redis when it answers, a dict in memory when it does not.  *)
(* The clock counts seconds here.                                           *)

\* CacheService(redis_url, default_ttl_seconds=1)
default_ttl_seconds == 1

Keys == {"k1", "k2"}

Values == {[value |-> 1], [value |-> 2]}

\* the ttl_seconds of a set: None (0 here), or a number of seconds
TtlArgs == {0, MaxTtl}

\* json.dumps(value)
json_dumps(value) == [json |-> value]

\* json.loads(payload)
json_loads(payload) == payload.json

\* self._redis.get(key) is not None: the key is there and has time to live
redis_has(key) ==
    \E i \in 1..Len(redis.store) :
        redis.store[i].key = key /\ now < redis.store[i].value.expires_at

\* self._redis.get(key)
redis_get(key) ==
    redis.store[CHOOSE i \in 1..Len(redis.store) : redis.store[i].key = key]
        .value.payload

\* _cleanup_memory_cache popping the entries that have reached their time
cleanup_memory_cache_early(store) ==
    SelectSeq(store, LAMBDA e : ~(e.value.expires_at <= now))

\* _cleanup_memory_cache: the entries with expires_at < now are popped
cleanup_memory_cache(store) ==
    SelectSeq(store, LAMBDA e : ~(e.value.expires_at < now))

\* self._memory_cache.get(key), where there is a value
memory_get(store, key) ==
    store[CHOOSE i \in 1..Len(store) : store[i].key = key].value.value

\* CacheService(redis_url): client.ping() succeeds, or RedisError is caught
Construct ==
    /\ client = "unbuilt"
    /\ client' = IF redis.up THEN "redis" ELSE "none"
    /\ UNCHANGED <<now, callVars, prior, family, harnessVars, serviceVars,
                   redis, memory, lastcall, written, dbcall>>

\* Redis stops answering: every command raises RedisError
RedisFails ==
    /\ redis.up
    /\ redis' = [redis EXCEPT !.up = FALSE]
    /\ UNCHANGED <<now, callVars, prior, family, harnessVars, serviceVars,
                   client, memory, lastcall, written, dbcall>>

\* Redis answers again, with the keys it had
RedisRecovers ==
    /\ ~redis.up
    /\ redis' = [redis EXCEPT !.up = TRUE]
    /\ UNCHANGED <<now, callVars, prior, family, harnessVars, serviceVars,
                   client, memory, lastcall, written, dbcall>>

\* the set that leaves a key that is in memory as it is
CacheSetOnce(key, value, ttl_seconds) ==
    /\ client \in {"redis", "none"}
    /\ lastcall.n < MaxOps
    /\ LET ttl == IF ttl_seconds # 0 THEN ttl_seconds ELSE default_ttl_seconds
       IN  /\ IF client = "redis" /\ redis.up
              THEN /\ redis' =
                          [redis EXCEPT !.store =
                              DictSet(@, key, [expires_at |-> now + ttl,
                                               payload |-> json_dumps(value)])]
                   /\ memory' = memory
              ELSE /\ memory' =
                          IF HasKey(memory, key) THEN memory
                          ELSE DictSet(memory, key,
                                       [expires_at |-> now + ttl, value |-> value])
                   /\ redis' = redis
           /\ lastcall' = [n |-> lastcall.n + 1, op |-> "set", key |-> key,
                           at |-> now, found |-> FALSE, value |-> value,
                           tier |-> IF client = "redis" /\ redis.up
                                    THEN "redis" ELSE "memory"]
           /\ written' = DictSet(written, key,
                                 [value |-> value, expires_at |-> now + ttl])
    /\ UNCHANGED <<now, callVars, prior, family, harnessVars, serviceVars, client,
                   dbcall>>

\* CacheService.set(key, value, ttl_seconds)
CacheSet(key, value, ttl_seconds) ==
    /\ client \in {"redis", "none"}
    /\ lastcall.n < MaxOps
    /\ LET ttl == IF ttl_seconds # 0 THEN ttl_seconds ELSE default_ttl_seconds
       IN  /\ IF client = "redis" /\ redis.up
              THEN /\ redis' =
                          [redis EXCEPT !.store =
                              DictSet(@, key, [expires_at |-> now + ttl,
                                               payload |-> json_dumps(value)])]
                   /\ memory' = memory
              ELSE /\ memory' =
                          DictSet(memory, key,
                                  [expires_at |-> now + ttl, value |-> value])
                   /\ redis' = redis
           /\ lastcall' = [n |-> lastcall.n + 1, op |-> "set", key |-> key,
                           at |-> now, found |-> FALSE, value |-> value,
                           tier |-> IF client = "redis" /\ redis.up
                                    THEN "redis" ELSE "memory"]
           /\ written' = DictSet(written, key,
                                 [value |-> value, expires_at |-> now + ttl])
    /\ UNCHANGED <<now, callVars, prior, family, harnessVars, serviceVars, client,
                   dbcall>>

\* CacheService.get(key)
CacheGet(key) ==
    /\ client \in {"redis", "none"}
    /\ lastcall.n < MaxOps
    /\ IF client = "redis" /\ redis.up
       THEN /\ memory' = memory
            /\ lastcall' =
                   [n |-> lastcall.n + 1, op |-> "get", key |-> key,
                    at |-> now, found |-> redis_has(key),
                    value |-> IF redis_has(key)
                              THEN json_loads(redis_get(key))
                              ELSE [value |-> 0],
                    tier |-> "redis"]
       ELSE LET kept == cleanup_memory_cache(memory)
            IN  /\ memory' = kept
                /\ lastcall' =
                       [n |-> lastcall.n + 1, op |-> "get", key |-> key,
                        at |-> now, found |-> HasKey(kept, key),
                        value |-> IF HasKey(kept, key)
                                  THEN memory_get(kept, key)
                                  ELSE [value |-> 0],
                        tier |-> "memory"]
    /\ UNCHANGED <<now, callVars, prior, family, harnessVars, serviceVars,
                   client, redis, written, dbcall>>

InitCache ==
    /\ family = "cache"
    /\ InitCalls
    /\ InitHarness
    /\ InitService
    /\ InitBackend

NextCache ==
    \/ Tick
    \/ Construct
    \/ RedisFails
    \/ RedisRecovers
    \/ \E key \in Keys, value \in Values, ttl_seconds \in TtlArgs :
          CacheSet(key, value, ttl_seconds)
    \/ \E key \in Keys : CacheGet(key)

\* one CacheService, its callers one at a time, and a Redis that comes and
\* goes
SpecCache == InitCache /\ [][NextCache]_vars

-----------------------------------------------------------------------------
(* AnalysisHistoryService on the analysis_history table *)

Hashes == {"h1", "h2"}

Snippets == {<<"a">>, <<"b">>}

\* .order_by(created_at.desc()).first(): a row with the greatest created_at;
\* the database is free in the order of rows with equal created_at
FirstByCreatedAtDesc(table, rows) ==
    {i \in rows : \A j \in rows : table[j].created_at <= table[i].created_at}

\* AnalysisHistoryService.create(code_hash=..., code_snippet=..., ...)
Create(code_hash, code_snippet) ==
    /\ dbcall.n < MaxOps
    /\ history' = create(history,
                         AnalysisHistory(code_hash, code_snippet, <<>>, 0,
                                         NoneStr))
    /\ dbcall' = [n |-> dbcall.n + 1, op |-> "create", code_hash |-> code_hash,
                  found |-> TRUE, row |-> history'[Len(history')]]
    /\ UNCHANGED <<now, callVars, prior, family, harnessVars, cache, request,
                   client, redis, memory, lastcall, written>>

\* AnalysisHistoryService.get_by_code_hash(code_hash)
GetByCodeHash(code_hash) ==
    /\ dbcall.n < MaxOps
    /\ LET rows == RowsOf(history, code_hash)
       IN  IF rows = {}
           THEN dbcall' = [n |-> dbcall.n + 1, op |-> "get",
                           code_hash |-> code_hash, found |-> FALSE,
                           row |-> <<>>]
           ELSE \E i \in FirstByCreatedAtDesc(history, rows) :
                   dbcall' = [n |-> dbcall.n + 1, op |-> "get",
                              code_hash |-> code_hash, found |-> TRUE,
                              row |-> history[i]]
    /\ UNCHANGED <<now, callVars, prior, family, harnessVars, serviceVars,
                   client, redis, memory, lastcall, written>>

InitHistory ==
    /\ family = "history"
    /\ InitCalls
    /\ InitHarness
    /\ InitService
    /\ IdleBackend

NextHistory ==
    \/ Tick
    \/ \E code_hash \in Hashes, code_snippet \in Snippets :
          Create(code_hash, code_snippet)
    \/ \E code_hash \in Hashes : GetByCodeHash(code_hash)

\* one AnalysisHistoryService, its callers one at a time
SpecHistory == InitHistory /\ [][NextHistory]_vars

-----------------------------------------------------------------------------
(* Properties of CodeAnalyzer.analyze *)

Returned(t) == pc[t] = "returned" /\ result[t].kind = "returned"

Accepted(t) == Parse(code[t]).ok

RuleIds(sugg) == {sugg[i].rule_id : i \in 1..Len(sugg)}

\* C1: for every source the parser rejects, analyze returns (it does not
\* raise) a result whose findings list has exactly one element, with rule_id
\* "syntax_error" and severity "error", and none of the six checks is
\* executed.
C1_SyntaxErrorOnly ==
    \A t \in Threads :
        (~Accepted(t) /\ pc[t] # "parse") =>
            /\ Returned(t)
            /\ Len(result[t].suggestions) = 1
            /\ result[t].suggestions[1].rule_id = "syntax_error"
            /\ result[t].suggestions[1].severity = "error"
            /\ executed[t] = <<>>

C1_Witness ==
    \E t \in Threads :
        /\ code[t] = ScenarioB
        /\ Returned(t)
        /\ RuleIds(result[t].suggestions) = {"syntax_error"}

\* C2: for every source that parses, the result of analyze holds no finding
\* with rule_id "syntax_error" and its analysis_time_ms is an integer >= 0.
C2_NoSyntaxErrorAndTime ==
    \A t \in Threads :
        (Accepted(t) /\ Returned(t)) =>
            /\ "syntax_error" \notin RuleIds(result[t].suggestions)
            /\ result[t].analysis_time_ms \in Nat

C2_Witness ==
    \E t \in Threads :
        /\ code[t] = ScenarioC
        /\ Returned(t)
        /\ result[t].suggestions # <<>>
        /\ result[t].analysis_time_ms > 0

\* the rule ids of the six checks, in the order analyze calls them
RuleOrder ==
    <<{"unused_import"}, {"unused_variable"},
      {"long_function", "high_cyclomatic_complexity"},
      {"function_naming", "variable_naming"},
      {"missing_docstring"}, {"print_statement"}>>

BlockOf(f) == CHOOSE k \in 1..Len(RuleOrder) : f.rule_id \in RuleOrder[k]

\* the findings of the k-th check run by itself on an empty list
Alone(k, tr) ==
    CASE k = 1 -> check_imports(tr, <<>>)
      [] k = 2 -> check_unused_variables(tr, <<>>)
      [] k = 3 -> check_function_metrics(tr, <<>>)
      [] k = 4 -> check_naming_conventions(tr, <<>>)
      [] k = 5 -> check_docstrings(tr, <<>>)
      [] k = 6 -> check_print_statements(tr, <<>>)

\* C3: for every valid source the findings list is the concatenation, in the
\* fixed order unused import, unused variable, function metrics, naming,
\* docstring, print statement, of each check's findings: every check's
\* findings form one block, and no finding of a later check precedes one of
\* an earlier check.
C3_BlocksInOrder ==
    \A t \in Threads :
        (Accepted(t) /\ Returned(t)) =>
            LET F == result[t].suggestions
            IN  /\ \A i \in 1..Len(F) :
                       \E k \in 1..Len(RuleOrder) : F[i].rule_id \in RuleOrder[k]
                /\ \A i, j \in 1..Len(F) :
                       i < j => BlockOf(F[i]) <= BlockOf(F[j])
                /\ \A k \in 1..Len(RuleOrder) :
                       SelectSeq(F, LAMBDA f : f.rule_id \in RuleOrder[k])
                           = Alone(k, tree[t])

C3_Witness ==
    \E t \in Threads :
        /\ Accepted(t)
        /\ Returned(t)
        /\ {"unused_import", "long_function", "missing_docstring"}
               \subseteq RuleIds(result[t].suggestions)

\* C4: two calls of analyze on the identical source, in any state of the
\* analyzer and with any calls on other sources in between, give findings
\* lists equal in content and order; only the elapsed time may differ.
C4_SameSourceSameFindings ==
    \A t \in Threads :
        (Returned(t) /\ prior.kind = "call" /\ prior.code = code[t]) =>
            result[t].suggestions = prior.suggestions

C4_Witness ==
    \E t \in Threads :
        /\ Returned(t)
        /\ prior.kind = "call"
        /\ prior.code = code[t]
        /\ prior.suggestions # <<>>
        /\ prior.analysis_time_ms # result[t].analysis_time_ms

\* C5: when a check raises on a parsed tree, analyze returns no
\* AnalysisResult (no empty one, none with the findings gathered so far, none
\* with a syntax_error finding): the caller gets the error.
C5_RaiseReachesCaller ==
    \A t \in Threads :
        pc[t] = "raised" =>
            /\ result[t].kind = "raised"
            /\ "suggestions" \notin DOMAIN result[t]
            /\ Accepted(t)

C5_Witness ==
    \E t \in Threads :
        /\ pc[t] = "raised"
        /\ result[t].kind = "raised"
        /\ executed[t] # <<>>
        /\ suggestions[t] # <<>>

\* C6: analyze called with an empty source fails before any parsing is
\* attempted and returns no AnalysisResult for it.
C6_EmptySourceRejected ==
    \A t \in Threads :
        code[t] = <<>> => (tree[t] = NoTree /\ result[t].kind # "returned")

-----------------------------------------------------------------------------
(* Properties of the rule classes *)

\* the rule ids each rule class reports under
OwnIds(r) ==
    CASE r = "ImportAnalysisRule" -> {"unused_import"}
      [] r = "UnusedVariableRule" -> {"unused_variable"}
      [] r = "FunctionMetricsRule" -> {"long_function", "high_cyclomatic_complexity"}
      [] r = "NamingConventionRule" -> {"function_naming", "variable_naming"}
      [] r = "DocstringRule" -> {"missing_docstring"}
      [] r = "PrintStatementRule" -> {"print_statement"}

\* C7: a rule run alone on a tree appends only findings whose rule_id is in
\* that rule's own set (whatever was run, every finding belongs to a rule
\* that was run), and the six sets are pairwise disjoint.
C7_RuleIsolation ==
    /\ \A i \in 1..Len(sink) : \E j \in 1..Len(ran) : sink[i].rule_id \in OwnIds(ran[j])
    /\ Len(ran) = 1 => RuleIds(sink) \subseteq OwnIds(ran[1])
    /\ \A r1, r2 \in Rules : r1 # r2 => OwnIds(r1) \cap OwnIds(r2) = {}

C7_Witness ==
    /\ Len(ran) = 1
    /\ ran[1] = "NamingConventionRule"
    /\ RuleIds(sink) = {"function_naming", "variable_naming"}

-----------------------------------------------------------------------------
(* Properties of the import and variable checks *)

Ran(t, check) == \E i \in 1..Len(executed[t]) : executed[t][i] = check

FindingsOf(t, rid) == SelectSeq(suggestions[t], LAMBDA f : f.rule_id = rid)

\* the part of a dotted name before its first dot
UpToDot(s) ==
    LET dots == {i \in 1..Len(s) : s[i] = "."}
    IN  IF dots = {} THEN s
        ELSE SubSeq(s, 1, (CHOOSE i \in dots : \A j \in dots : i <= j) - 1)

\* the part of a dotted name after its last dot
AfterLastDot(s) ==
    LET dots == {i \in 1..Len(s) : s[i] = "."}
    IN  IF dots = {} THEN s
        ELSE SubSeq(s, (CHOOSE i \in dots : \A j \in dots : i >= j) + 1, Len(s))

\* C8: the import check emits exactly one warning with rule_id unused_import
\* and metadata.symbol = key for every recorded key whose first dotted
\* segment is not a name read in the tree, and none for a key whose first
\* segment is read.
C8_UnusedImports ==
    \A t \in Threads :
        Ran(t, "imports") =>
            LET imports == ImportTable(tree[t])
                read == LoadedNames(tree[t])
                F == FindingsOf(t, "unused_import")
            IN  /\ \A k \in 1..Len(imports) :
                       LET hits == {i \in 1..Len(F) :
                                       F[i].metadata.symbol = imports[k].key}
                       IN  IF UpToDot(imports[k].key) \notin read
                           THEN /\ Cardinality(hits) = 1
                                /\ \A i \in hits : F[i].severity = "warning"
                           ELSE hits = {}
                /\ \A i \in 1..Len(F) : HasKey(imports, F[i].metadata.symbol)

C8_Witness ==
    \E t \in Threads :
        /\ pc[t] = "returned"
        /\ Ran(t, "imports")
        /\ \E k, l \in 1..Len(ImportTable(tree[t])) :
              /\ Len(ImportTable(tree[t])[k].key) > 1
              /\ UpToDot(ImportTable(tree[t])[k].key) \in LoadedNames(tree[t])
              /\ UpToDot(ImportTable(tree[t])[l].key) \notin LoadedNames(tree[t])
        /\ Len(FindingsOf(t, "unused_import")) = 1

\* the imported bindings of a tree: <<i, j>> is the j-th alias of the i-th
\* node that ast.walk visits
ImportBindings(tr) ==
    LET w == Walk(tr, 1)
    IN  UNION {{<<i, j>> : j \in 1..Len(tr[w[i]].names)} :
                  i \in {k \in 1..Len(w) :
                            tr[w[k]].type \in {"Import", "ImportFrom"}}}

BindingNode(tr, b) == tr[Walk(tr, 1)[b[1]]]

BindingAlias(tr, b) == BindingNode(tr, b).names[b[2]]

VisitedBefore(b, c) == b[1] < c[1] \/ (b[1] = c[1] /\ b[2] < c[2])

\* the key as the specification words it
StatedKey(tr, b) ==
    LET node == BindingNode(tr, b)
        alias == BindingAlias(tr, b)
    IN  IF alias.asname # <<>> THEN alias.asname
        ELSE IF node.type = "Import" THEN AfterLastDot(alias.name)
        ELSE IF node.module # <<>> THEN node.module \o <<".">> \o alias.name
        ELSE alias.name

\* the key with the first segment for a plain import, and with the module
\* in front of a from-import's alias
FirstSegmentKey(tr, b) ==
    LET node == BindingNode(tr, b)
        alias == BindingAlias(tr, b)
        bound == IF alias.asname # <<>> THEN alias.asname ELSE alias.name
    IN  IF node.type = "Import"
        THEN (IF alias.asname # <<>> THEN alias.asname ELSE UpToDot(alias.name))
        ELSE IF node.module # <<>> THEN node.module \o <<".">> \o bound
        ELSE bound

\* C9 as stated: the key is the alias when one is given, else the leaf name
\* of a plain import, else module.x (x when the module is empty); a key
\* imported more than once keeps one entry, with the line of the later
\* import.
C9_StatedKeys ==
    \A t \in Threads :
        Ran(t, "imports") =>
            LET tr == tree[t]
                imports == ImportTable(tr)
                B == ImportBindings(tr)
            IN  /\ {imports[k].key : k \in 1..Len(imports)}
                       = {StatedKey(tr, b) : b \in B}
                /\ \A k, l \in 1..Len(imports) :
                       imports[k].key = imports[l].key => k = l
                /\ \A k \in 1..Len(imports) : \A b \in B :
                       StatedKey(tr, b) = imports[k].key
                           => imports[k].value >= BindingNode(tr, b).lineno

\* C9, amended: the key of a plain import is its alias, else the first
\* dotted segment of the imported name; the key of a from-import is
\* module.y, y being the alias, else the imported name (y alone when the
\* module is empty); a key imported more than once keeps one entry, with the
\* line of the import that ast.walk visits last (breadth first, so a nested
\* import comes after every import of the enclosing levels).
C9_RecordedKeys ==
    \A t \in Threads :
        Ran(t, "imports") =>
            LET tr == tree[t]
                imports == ImportTable(tr)
                B == ImportBindings(tr)
                F == FindingsOf(t, "unused_import")
            IN  /\ {imports[k].key : k \in 1..Len(imports)}
                       = {FirstSegmentKey(tr, b) : b \in B}
                /\ \A k, l \in 1..Len(imports) :
                       imports[k].key = imports[l].key => k = l
                /\ \A k \in 1..Len(imports) : \E b \in B :
                       /\ FirstSegmentKey(tr, b) = imports[k].key
                       /\ \A c \in B :
                              FirstSegmentKey(tr, c) = imports[k].key
                                  => (c = b \/ VisitedBefore(c, b))
                       /\ imports[k].value = BindingNode(tr, b).lineno
                /\ \A i \in 1..Len(F) :
                       [key |-> F[i].metadata.symbol, value |-> F[i].line]
                           \in Range(imports)

C9_Witness ==
    \E t \in Threads :
        /\ code[t] = NestedImport
        /\ pc[t] = "returned"
        /\ ImportTable(tree[t]) = <<[key |-> <<"a">>, value |-> 2]>>
        /\ Len(result[t].suggestions) >= 1
        /\ result[t].suggestions[1].line = 2

\* the simple names that are assignment targets
StoreTargets(tr) ==
    {n \in Range(Walk(tr, 1)) : tr[n].type = "Name" /\ tr[n].ctx = "Store"}

\* C10: the variable check emits exactly one info finding with rule_id
\* unused_variable and metadata.symbol = name for every assignment target
\* that does not start with an underscore and is read nowhere in the tree,
\* and none for a name that starts with an underscore or is read somewhere.
C10_UnusedVariables ==
    \A t \in Threads :
        Ran(t, "variables") =>
            LET tr == tree[t]
                read == LoadedNames(tr)
                F == FindingsOf(t, "unused_variable")
            IN  /\ \A n \in StoreTargets(tr) :
                       LET hits == {i \in 1..Len(F) :
                                       F[i].metadata.symbol = tr[n].id}
                       IN  IF Head(tr[n].id) # "_" /\ tr[n].id \notin read
                           THEN /\ Cardinality(hits) = 1
                                /\ \A i \in hits : F[i].severity = "info"
                           ELSE hits = {}
                /\ \A i \in 1..Len(F) :
                       \E n \in StoreTargets(tr) : tr[n].id = F[i].metadata.symbol

C10_Witness ==
    \E t \in Threads :
        /\ pc[t] = "returned"
        /\ Ran(t, "variables")
        /\ \E n, m \in StoreTargets(tree[t]) :
              /\ n # m
              /\ tree[t][n].id = tree[t][m].id
              /\ Head(tree[t][n].id) # "_"
        /\ \E n \in StoreTargets(tree[t]) : Head(tree[t][n].id) = "_"
        /\ Len(FindingsOf(t, "unused_variable")) = 1

-----------------------------------------------------------------------------
(* Properties of the function metrics check *)

FunctionDefs(tr) == {n \in 1..Len(tr) : tr[n].type = "FunctionDef"}

\* C11: for every non-async function definition a long_function warning with
\* metadata.length = end_line - start_line + 1 is emitted if and only if that
\* length is greater than 50: 50 lines are not reported, 51 lines are, and a
\* 51-line function without branching gets no high_cyclomatic_complexity.
C11_LongFunction ==
    \A t \in Threads :
        Ran(t, "metrics") =>
            LET tr == tree[t]
                F == FindingsOf(t, "long_function")
            IN  /\ \A n \in FunctionDefs(tr) :
                       LET length == tr[n].end_lineno - tr[n].lineno + 1
                           hits == {i \in 1..Len(F) : F[i].line = tr[n].lineno}
                       IN  IF length > 50
                           THEN /\ Cardinality(hits) = 1
                                /\ \A i \in hits :
                                       /\ F[i].metadata.length = length
                                       /\ F[i].severity = "warning"
                           ELSE hits = {}
                /\ \A i \in 1..Len(F) :
                       \E n \in FunctionDefs(tr) : F[i].line = tr[n].lineno
                /\ code[t] = LongFunction(49) => F = <<>>
                /\ code[t] = AsyncLongFunction(50) => F = <<>>
                /\ code[t] = LongFunction(50) =>
                       /\ Len(F) = 1
                       /\ F[1].metadata.length = 51
                       /\ FindingsOf(t, "high_cyclomatic_complexity") = <<>>

C11_Witness ==
    \E t \in Threads :
        /\ pc[t] = "returned"
        /\ code[t] = LongFunction(50)
        /\ Len(FindingsOf(t, "long_function")) = 1
        /\ FindingsOf(t, "long_function")[1].metadata.length = 51

RECURSIVE SubtreeOf(_, _)
\* node n and every node below it
SubtreeOf(tr, n) ==
    {n} \cup UNION {SubtreeOf(tr, tr[n].children[i]) :
                       i \in 1..Len(tr[n].children)}

Branching ==
    {"If", "For", "AsyncFor", "While", "With", "AsyncWith", "Try", "BoolOp",
     "comprehension", "ExceptHandler"}

-----------------------------------------------------------------------------
(* Properties of the naming check *)

\* ^[a-z_][a-z0-9_]*$
IsSnakeCase(s) ==
    /\ s # <<>>
    /\ Head(s) \in Lower \cup {"_"}
    /\ Range(Tail(s)) \subseteq Lower \cup Digits \cup {"_"}

\* the Name targets of the Assign nodes
AssignTargets(tr) ==
    {m \in 1..Len(tr) :
        /\ tr[m].type = "Name"
        /\ \E a \in 1..Len(tr) : tr[a].type = "Assign" /\ m \in Range(tr[a].targets)}

-----------------------------------------------------------------------------
(* Properties of the docstring check *)

AnyFunctionDefs(tr) ==
    {n \in 1..Len(tr) : tr[n].type \in {"FunctionDef", "AsyncFunctionDef"}}

\* the body of definition n starts with a string literal statement
HasLeadingString(tr, n) ==
    /\ tr[n].body # <<>>
    /\ tr[tr[n].body[1]].type = "Expr"
    /\ LET value == tr[tr[tr[n].body[1]].children[1]]
       IN  value.type = "Constant" /\ value.kind = "str"

\* the characters of that literal
LeadingString(tr, n) == tr[tr[tr[n].body[1]].children[1]].s

\* the definitions reported are those that satisfy Missing
DocstringFindingsAre(t, Missing(_, _)) ==
    LET tr == tree[t]
        F == FindingsOf(t, "missing_docstring")
    IN  /\ \A n \in AnyFunctionDefs(tr) :
               LET hits == {i \in 1..Len(F) : F[i].line = tr[n].lineno}
               IN  IF Missing(tr, n)
                   THEN /\ Cardinality(hits) = 1
                        /\ \A i \in hits : F[i].severity = "info"
                   ELSE hits = {}
        /\ \A i \in 1..Len(F) :
               \E n \in AnyFunctionDefs(tr) : F[i].line = tr[n].lineno

\* C14 as stated: missing_docstring is emitted, at the definition's line, for
\* a function or coroutine definition if and only if its name does not start
\* with an underscore and its body has no leading string literal statement.
C14_StatedDocstrings ==
    \A t \in Threads :
        Ran(t, "docstrings") =>
            DocstringFindingsAre(t,
                LAMBDA tr, n : /\ Head(tr[n].name) # "_"
                               /\ ~HasLeadingString(tr, n))

\* C14, amended: missing_docstring is emitted, at the definition's line, for
\* a function or coroutine definition if and only if its name does not start
\* with an underscore and its body has no leading string literal statement
\* or that literal holds nothing but white space.
C14_Docstrings ==
    \A t \in Threads :
        Ran(t, "docstrings") =>
            DocstringFindingsAre(t,
                LAMBDA tr, n :
                    /\ Head(tr[n].name) # "_"
                    /\ \/ ~HasLeadingString(tr, n)
                       \/ Range(LeadingString(tr, n)) \subseteq {" "})

C14_Witness ==
    \E t \in Threads :
        /\ pc[t] = "returned"
        /\ code[t] = EmptyDocstring
        /\ HasLeadingString(tree[t], 2)
        /\ Len(FindingsOf(t, "missing_docstring")) = 1

-----------------------------------------------------------------------------
(* Properties of the print check *)

\* the calls whose callee is the bare name print
PrintCalls(tr) ==
    {n \in 1..Len(tr) :
        /\ tr[n].type = "Call"
        /\ tr[tr[n].func].type = "Name"
        /\ tr[tr[n].func].id = <<"p", "r", "i", "n", "t">>}

\* C15: the print check emits one info finding print_statement, with the
\* line and column of the call node, for every call whose callee is the bare
\* name print, and none for any other call (an attribute print, another
\* name).
C15_Prints ==
    \A t \in Threads :
        Ran(t, "prints") =>
            LET tr == tree[t]
                F == FindingsOf(t, "print_statement")
            IN  /\ \A n \in PrintCalls(tr) :
                       LET hits == {i \in 1..Len(F) :
                                       /\ F[i].line = tr[n].lineno
                                       /\ F[i].column = tr[n].col_offset}
                       IN  /\ Cardinality(hits) = 1
                           /\ \A i \in hits : F[i].severity = "info"
                /\ Len(F) = Cardinality(PrintCalls(tr))
                /\ code[t] = AssignedPrint =>
                       Len(F) = 1 /\ F[1].line = 1 /\ F[1].column = 4

C15_Witness ==
    \E t \in Threads :
        /\ pc[t] = "returned"
        /\ Len(FindingsOf(t, "print_statement")) = 2
        /\ \E n \in 1..Len(tree[t]) :
              /\ tree[t][n].type = "Call"
              /\ tree[t][tree[t][n].func].type = "Attribute"
        /\ \E i \in 1..2 : FindingsOf(t, "print_statement")[i].column = 6

-----------------------------------------------------------------------------
(* The order of the findings of one check *)

RECURSIVE DepthOf(_, _)
\* the number of ancestors of node n
DepthOf(tr, n) ==
    IF n = 1 THEN 0
    ELSE 1 + DepthOf(tr, CHOOSE m \in 1..Len(tr) : n \in Range(tr[m].children))

\* node n comes before node m in the source (nodes are numbered in source
\* order, a parent before its children)
SourceBefore(n, m) == n < m

\* node n comes before node m depth by depth
LevelBefore(tr, n, m) ==
    \/ DepthOf(tr, n) < DepthOf(tr, m)
    \/ DepthOf(tr, n) = DepthOf(tr, m) /\ n < m

\* the definition a missing_docstring finding is about
DefAt(tr, line) == CHOOSE n \in AnyFunctionDefs(tr) : tr[n].lineno = line

\* the assignment targets named id
TargetsNamed(tr, id) == {n \in StoreTargets(tr) : tr[n].id = id}

\* the unread names without a leading underscore, and their targets
UnusedTargets(tr) ==
    {n \in StoreTargets(tr) :
        Head(tr[n].id) # "_" /\ tr[n].id \notin LoadedNames(tr)}

-----------------------------------------------------------------------------
(* The shape of a finding *)

\* the values of Suggestion.severity
Severities == {"info", "warning", "error"}

\* the rule ids of the six checks
CheckRuleIds == UNION Range(RuleOrder)

WellFormed(f) ==
    /\ {"rule_id", "message", "severity"} \subseteq DOMAIN f
    /\ f.rule_id \in CheckRuleIds \cup {"syntax_error"}
    /\ Len(f.message) > 0
    /\ f.severity \in Severities
    /\ f.severity = "error" => f.rule_id = "syntax_error"
    /\ f.rule_id \in CheckRuleIds => f.severity \in {"info", "warning"}

\* C17: every finding in every result of analyze (and in every findings
\* list under construction) has a rule_id and a message, and a severity that
\* is one of info, warning, error; severity error occurs only on the
\* syntax_error finding, never on a finding of one of the six checks.
C17_FindingShape ==
    \A t \in Threads :
        /\ \A i \in 1..Len(suggestions[t]) : WellFormed(suggestions[t][i])
        /\ Returned(t) =>
               \A i \in 1..Len(result[t].suggestions) :
                   WellFormed(result[t].suggestions[i])

C17_Witness ==
    \E t \in Threads :
        /\ Returned(t)
        /\ Accepted(t)
        /\ {result[t].suggestions[i].severity :
                i \in 1..Len(result[t].suggestions)} = {"info", "warning"}
        /\ {"unused_import", "function_naming", "print_statement"}
               \subseteq RuleIds(result[t].suggestions)

-----------------------------------------------------------------------------
(* Calls that overlap *)

\* the findings of analyze(src) when no other call is running
AnalyzeAlone(src) ==
    LET p == Parse(src)
        tr == p.tree
    IN  IF p.ok
        THEN check_print_statements(tr,
                 check_docstrings(tr,
                     check_naming_conventions(tr,
                         check_function_metrics(tr,
                             check_unused_variables(tr,
                                 check_imports(tr, <<>>))))))
        ELSE <<Finding("syntax_error", <<"Erro de sintaxe: ", p.exc.msg>>,
                       "error", p.exc.lineno, p.exc.offset, <<>>)>>

\* C18: when several analyze calls run at once on the same analyzer, in
\* every interleaving of their steps each call ends with exactly the findings
\* it gives when run alone: nothing of one call appears in, or is missing
\* from, the result of another.
C18_CallsDoNotMix ==
    \A t \in Threads :
        /\ pc[t] = "finish" => suggestions[t] = AnalyzeAlone(code[t])
        /\ Returned(t) => result[t].suggestions = AnalyzeAlone(code[t])

\* both calls are inside analyze, each with all its findings, and one has
\* returned its result while the other was running
C18_Witness ==
    /\ Returned(1)
    /\ code[1] = ScenarioC
    /\ Len(result[1].suggestions) = 5
    /\ pc[2] = "finish"
    /\ code[2] = ScenarioA
    /\ start[2] < start[1]
    /\ suggestions[2] # <<>>

-----------------------------------------------------------------------------
(* The two packagings of the checks *)

RECURSIVE InlineChecks(_, _)
\* the findings of the first k inline checks of analyze on tree tr
InlineChecks(k, tr) ==
    IF k = 0 THEN <<>>
    ELSE LET sugg == InlineChecks(k - 1, tr)
         IN  CASE k = 1 -> check_imports(tr, sugg)
               [] k = 2 -> check_unused_variables(tr, sugg)
               [] k = 3 -> check_function_metrics(tr, sugg)
               [] k = 4 -> check_naming_conventions(tr, sugg)
               [] k = 5 -> check_docstrings(tr, sugg)
               [] k = 6 -> check_print_statements(tr, sugg)

\* C19: for every tree, the findings of the six inline checks of
\* CodeAnalyzer equal, in content and order, the findings of
\* ImportAnalysisRule, UnusedVariableRule, FunctionMetricsRule,
\* NamingConventionRule, DocstringRule and PrintStatementRule run in that
\* order on one shared list (and so after each rule of the sequence).
C19_SamePackaging ==
    rtree # NoTree =>
        /\ ran = SubSeq(RuleSequence, 1, Len(ran))
        /\ sink = InlineChecks(Len(ran), rtree)

C19_Witness ==
    /\ ran = RuleSequence
    /\ sink = InlineChecks(6, rtree)
    /\ {"unused_import", "unused_variable", "function_naming",
        "missing_docstring", "print_statement"} \subseteq RuleIds(sink)

-----------------------------------------------------------------------------
(* Properties of CodeAnalysisService.analyze_code *)

\* the call in progress has returned a response
Responded == request.pc = "done" /\ request.response.kind = "response"

\* C20: analyze_code with default flags, on a source that has no cache
\* entry, runs the analyzer once, creates exactly one history record, which
\* holds the source and its hash, stores the payload in the cache under the
\* key "analysis:<hash>", and returns cached = False; the hash and the cache
\* key are a function of the source only (the SHA-256 of its UTF-8 bytes):
\* not of the findings, not of language_version.
C20_MissPath ==
    /\ (Responded /\ request.use_cache /\ request.persist /\ request.miss) =>
           LET h == sha256_hexdigest(encode(request.code))
           IN  /\ request.calls = 1
               /\ Len(history) = Len(request.before) + 1
               /\ SubSeq(history, 1, Len(request.before)) = request.before
               /\ history[Len(history)].code_snippet = request.code
               /\ history[Len(history)].code_hash = h
               /\ Len(request.sets) = 1
               /\ request.sets[1].key = <<"analysis:", h>>
               /\ request.sets[1].value =
                      [code_hash |-> h,
                       suggestions |-> request.result.suggestions,
                       analysis_time_ms |-> request.result.analysis_time_ms]
               /\ request.response.cached = FALSE
               /\ request.response.code_hash = h
    /\ \A i \in 1..Len(history) :
           history[i].code_hash = sha256_hexdigest(encode(history[i].code_snippet))
    /\ \A i \in 1..Len(cache) :
           /\ cache[i].key = <<"analysis:", cache[i].value.code_hash>>
           /\ \A j \in 1..Len(history) :
                  history[j].code_hash = cache[i].value.code_hash
                      => history[j].suggestions = cache[i].value.suggestions

\* two misses on one source, sent with different language versions: two
\* records with one hash, and the entry in the cache
C20_Witness ==
    /\ Responded
    /\ request.miss
    /\ request.code = ScenarioA
    /\ Len(history) = 2
    /\ history[1].code_snippet = history[2].code_snippet
    /\ history[1].language_version # history[2].language_version
    /\ history[1].code_hash = history[2].code_hash
    /\ cache_has(request.cache_key)
    /\ request.response.suggestions # <<>>

\* the step of analyze_code that finds the key in the cache
HitStep ==
    /\ request.pc = "lookup"
    /\ request'.pc = "done"

\* C21: analyze_code with use_cache on, for a source whose key is in the
\* cache, returns the cached code_hash, suggestions and analysis_time_ms
\* unchanged together with cached = True, without running the analyzer,
\* without creating a history record and without writing the cache.
C21_HitPath ==
    /\ [](Responded /\ request.response.cached =>
              /\ request.use_cache
              /\ request.calls = 0
              /\ request.sets = <<>>
              /\ history = request.before)
    /\ [][HitStep =>
              LET cached == cache[cache_get(request.cache_key)].value
              IN  /\ request.use_cache /\ cache_has(request.cache_key)
                  /\ request'.response.code_hash = cached.code_hash
                  /\ request'.response.suggestions = cached.suggestions
                  /\ request'.response.analysis_time_ms = cached.analysis_time_ms
                  /\ request'.response.cached = TRUE
                  /\ UNCHANGED <<callVars, cache, history>>]_vars

\* a hit on a seeded entry for a source whose analysis gives findings, after
\* an earlier miss on another source
C21_Witness ==
    /\ Responded
    /\ request.response.cached
    /\ request.code = ScenarioA
    /\ request.response.suggestions = <<>>
    /\ request.response.analysis_time_ms = 1
    /\ Len(history) = 1
    /\ history[1].code_snippet # ScenarioA

-----------------------------------------------------------------------------
(* Properties of CacheService *)

\* the last call was a get of a key whose last set had not run out of time
\* when the get was made
GotLive ==
    /\ lastcall.op = "get"
    /\ HasKey(written, lastcall.key)
    /\ lastcall.at
           < written[CHOOSE i \in 1..Len(written) :
                         written[i].key = lastcall.key].value.expires_at

\* the value of the last set of the key got last
LastWritten ==
    written[CHOOSE i \in 1..Len(written) : written[i].key = lastcall.key]
        .value.value

\* C22: a CacheService constructed while Redis is unreachable is constructed
\* all the same (with no client), and then a get(k) made after set(k, v) and
\* before the time to live of the entry has run out returns v, the value of
\* the latest set on k: the dict in memory serves it.
C22_Fallback ==
    /\ client \in {"unbuilt", "redis", "none"}
    /\ (client = "none" /\ GotLive) =>
           /\ lastcall.found
           /\ lastcall.value = LastWritten
           /\ lastcall.tier = "memory"

\* two sets on one key, then a get that returns the second value, while
\* Redis, unreachable at construction, is reachable again
C22_Witness ==
    /\ client = "none"
    /\ redis.up
    /\ GotLive
    /\ lastcall.n = 3
    /\ lastcall.value = [value |-> 2]
    /\ Len(memory) = 1

\* a get that reaches the dict in memory
MemoryGetStep ==
    /\ lastcall'.n = lastcall.n + 1
    /\ lastcall'.op = "get"
    /\ lastcall'.tier = "memory"

\* the entry of the dict in memory is past its time
Expired(e) == e.value.expires_at < now

-----------------------------------------------------------------------------
(* Properties of AnalysisHistoryService *)

\* C24: create adds exactly one record and leaves the others as they are;
\* get_by_code_hash(h) returns None when no record has hash h and otherwise
\* the record created last among those with hash h, so a get right after
\* create(code_hash = h) returns the record just created.
C24_LatestRecord ==
    /\ dbcall.op = "create" =>
           /\ history # <<>>
           /\ dbcall.row = history[Len(history)]
           /\ \A i, j \in 1..Len(history) : i < j => history[i].id # history[j].id
    /\ dbcall.op = "get" =>
           LET rows == RowsOf(history, dbcall.code_hash)
           IN  IF rows = {} THEN ~dbcall.found
               ELSE /\ dbcall.found
                    /\ dbcall.row
                           = history[CHOOSE i \in rows : \A j \in rows : j <= i]

-----------------------------------------------------------------------------
(* The line of an unused_variable finding *)

\* the place of node n in the order in which ast.walk visits the tree
VisitOf(tr, n) == CHOOSE i \in 1..Len(Walk(tr, 1)) : Walk(tr, 1)[i] = n

\* the names assigned on several lines, at different nesting depths
DeepAndShallow(tr) ==
    {id \in {tr[n].id : n \in StoreTargets(tr)} :
        \E n, m \in TargetsNamed(tr, id) :
            /\ tr[n].lineno # tr[m].lineno
            /\ DepthOf(tr, n) # DepthOf(tr, m)}

-----------------------------------------------------------------------------
(* What a rule object leaves behind *)

\* C26: after rule.analyze(tree, sink) the previous content of sink is an
\* unchanged prefix of the new content, the tree is unchanged, and what the
\* call appends is what the rule finds on the tree with an empty list,
\* whatever ran before: the same rule run again appends the same findings
\* again.
C26_AppendOnly ==
    [][ran' # ran =>
           LET r == ran'[Len(ran')]
           IN  /\ Len(sink') >= Len(sink)
               /\ SubSeq(sink', 1, Len(sink)) = sink
               /\ rtree' = rtree
               /\ SubSeq(sink', Len(sink) + 1, Len(sink'))
                      = analyze(r, rtree, <<>>)
               /\ (r \in Range(ran) /\ Len(ran) = 1) => sink' = sink \o sink]_vars

C26_Witness ==
    /\ ran = <<"ImportAnalysisRule", "ImportAnalysisRule">>
    /\ Len(sink) = 2
    /\ sink[1] = sink[2]
    /\ sink[1].rule_id = "unused_import"

\* a step of the analyze_code call in progress
ServiceStep == request' # request

\* C27: with use_cache = False analyze_code neither reads nor writes the
\* cache and runs the analyzer, even when an entry for the source exists;
\* with persist = False it creates no history record; on every call that is
\* not served from the cache the suggestions returned are the findings of
\* the analyzer on the source, whatever the flags.
C27_Flags ==
    /\ [](Responded =>
              /\ ~request.use_cache =>
                     /\ request.calls = 1
                     /\ request.sets = <<>>
                     /\ ~request.miss
                     /\ ~request.response.cached
              /\ ~request.persist => history = request.before
              /\ (request.persist /\ ~request.response.cached) =>
                     Len(history) = Len(request.before) + 1
              /\ ~request.response.cached =>
                     /\ request.calls = 1
                     /\ request.response.suggestions
                            = Response(request.code_hash,
                                       AnalyzeAlone(request.code), 0,
                                       FALSE).suggestions)
    /\ [][(ServiceStep /\ ~request'.use_cache) => cache' = cache]_vars
    /\ [][(ServiceStep /\ ~request'.persist) => history' = history]_vars

\* a call with both flags off on a source whose entry, put there by someone
\* else, holds other suggestions than the analyzer finds
C27_Witness ==
    /\ Responded
    /\ ~request.use_cache
    /\ ~request.persist
    /\ cache_has(request.cache_key)
    /\ cache[cache_get(request.cache_key)].value.suggestions
           # request.response.suggestions
    /\ request.calls = 1
    /\ history = <<>>

\* the miss whose response the caller of the call in progress got earlier
\* for the same source: [response, records], records being the number of
\* history records of the hash when it returned
EarlierMiss == request.misses[CHOOSE i \in 1..Len(request.misses) :
                                  request.misses[i].key = request.cache_key].value

\* a call answered from the entry an earlier call of the sequence wrote
RepeatHit ==
    /\ Responded
    /\ request.response.cached
    /\ HasKey(request.misses, request.cache_key)
    /\ request.response.code_hash = EarlierMiss.response.code_hash
    /\ request.response.suggestions = EarlierMiss.response.suggestions
    /\ request.response.analysis_time_ms = EarlierMiss.response.analysis_time_ms

\* the lookup of a call finds the entry live
LiveLookup ==
    /\ request.pc = "lookup"
    /\ ServiceStep
    /\ cache_has(request.cache_key)

\* C28 as stated: once a call for a source returned cached = False, a later
\* call for it made while the entry is live returns cached = True with the
\* code_hash, suggestions and analysis_time_ms of that call, and the number
\* of history records of the hash is one.
C28_OneRecord ==
    /\ [][LiveLookup => request'.pc = "done"]_vars
    /\ [](Responded /\ request.response.cached =>
              /\ RepeatHit
              /\ Cardinality(RowsOf(history, request.code_hash)) = 1)

\* C28: once a call for a source returned cached = False, a later call for
\* it made while the entry that call wrote is live returns cached = True
\* with the code_hash, suggestions and analysis_time_ms of that call, and
\* adds no history record: the number of records of the hash is what it was
\* when that call returned (one if no entry of the source had expired
\* before, one more for every miss that followed an expiry).
C28_NoNewRecord ==
    /\ [][LiveLookup => request'.pc = "done"]_vars
    /\ [](Responded /\ request.response.cached =>
              /\ RepeatHit
              /\ Cardinality(RowsOf(history, request.code_hash))
                     = EarlierMiss.records
              /\ EarlierMiss.records >= 1)

\* a miss, the expiry of its entry, a second miss and a hit on its entry
C28_Witness ==
    /\ RepeatHit
    /\ request.served = 3
    /\ request.response.suggestions # <<>>
    /\ Cardinality(RowsOf(history, request.code_hash)) = 2

\* C29: for a CacheService whose Redis connection was established at
\* construction, whatever failures and recoveries of Redis fall between the
\* calls, a get(k) made after set(k, v) has returned and before the time to
\* live has run out returns v: neither None nor an older value of k,
\* whichever tier took the write.
C29_ReadYourWrite ==
    (client = "redis" /\ GotLive) =>
        /\ lastcall.found
        /\ lastcall.value = LastWritten

\* the step of analyze_code that writes the cache entry
StoreStep ==
    /\ request.pc = "store"
    /\ request'.pc = "respond"
    /\ cache' # cache

\* C30: on a miss with persist and use_cache on, analyze_code writes the
\* history record before the cache entry, and a create that fails makes the
\* call fail with no cache entry written; so every cache entry analyze_code
\* has written has a history record of its hash, committed before it.
C30_RecordBeforeEntry ==
    /\ [][StoreStep =>
              /\ history' = history
              /\ Len(history) = Len(request.before) + 1
              /\ history[Len(history)].code_hash = request.code_hash
              /\ \E i \in 1..Len(cache') :
                     /\ cache'[i].key = request.cache_key
                     /\ cache'[i].value.code_hash = request.code_hash]_vars
    /\ [](request.pc = "failed" =>
              /\ request.sets = <<>>
              /\ history = request.before)
    /\ [](\A i \in 1..Len(cache) :
              RowsOf(history, cache[i].value.code_hash) # {})

\* a call whose create failed, after a call on another source that went
\* through: one record, one entry, none of them of the failed call
C30_Witness ==
    /\ request.pc = "failed"
    /\ pc[1] = "returned"
    /\ request.served = 2
    /\ ~cache_has(request.cache_key)
    /\ Len(cache) = 1
    /\ Len(history) = 1
    /\ RowsOf(history, request.code_hash) = {}

====
